---- MODULE Spec2Model ----
(***************************************************************************)
(* Site-cleaner bot (src/app.py): the per-chat session store (mode,        *)
(* pending bucket, merge bucket) and the handlers that mutate it.          *)
(*                                                                         *)
(* Every update is scheduled as its own task on one asyncio event loop     *)
(* (telegram_webhook, run_coroutine_threadsafe), so a handler runs         *)
(* atomically between two awaits and handlers interleave at awaits.        *)
(* A handler whose state accesses all lie in one await-free stretch is one *)
(* action; clean_cmd and done_cmd, which await file fetches and replies    *)
(* between their reads and their final clear, are processes with a         *)
(* program counter.                                                        *)
(***************************************************************************)
EXTENDS Integers, Sequences, FiniteSets, TLC

VARIABLES
    modes,      \* bot_data["modes"]:   dict chat_id -> "apex" | "host"
    pending,    \* bot_data["pending"]: dict chat_id -> {texts, files}
    merge,      \* bot_data["merge"]:   dict chat_id -> {files, total_bytes}
    cleanRun,   \* per chat: the clean_cmd coroutine in flight (locals, position)
    doneRun,    \* per chat: the done_cmd coroutine in flight (locals, position)
    out         \* what the last step of a clean_cmd / done_cmd run did at the
                \* boundary (a reply, a fetch, its return); empty after a step
                \* of another handler

vars == <<modes, pending, merge, cleanRun, doneRun, out>>

-----------------------------------------------------------------------------
(* Program constants                                                       *)

DEFAULT_MODE == "apex"
MAX_MERGE_FILES == 30
MAX_TOTAL_MERGE_BYTES == 25 * 1024 * 1024
MAX_SINGLE_FILE_BYTES == 10 * 1024 * 1024
MAX_PENDING_TOTAL_BYTES == 25 * 1024 * 1024

-----------------------------------------------------------------------------
(* Bounds of the model                                                     *)

MaxTexts == 1          \* texts accepted into one pending bucket
MaxFiles == 1          \* files accepted into one bucket, concurrent model
MaxTail == 2           \* freely chosen last digits of a numeric run
MaxUrlLen == 5         \* characters of a string given to normalize_input_url

-----------------------------------------------------------------------------
(* Inputs                                                                  *)

\* A document as Telegram declares it. file_size 0 stands for None or 0,
\* mime_type "" and file_name.ext "" for None.
Doc(id, stem, ext, mime, size) ==
    [file_id |-> id, file_name |-> [stem |-> stem, ext |-> ext],
     mime_type |-> mime, file_size |-> size]

NoName == [stem |-> "", ext |-> ""]

\* str.lower() on the strings the inputs use
Lower(s) ==
    CASE s = "TEXT/PLAIN" -> "text/plain"
      [] s = ".TXT" -> ".txt"
      [] s = "APEX" -> "apex"
      [] s = "HOST" -> "host"
      [] OTHER -> s

\* len(t.encode("utf-8")) of the texts the inputs use
Utf8Len(t) ==
    CASE t = "" -> 0
      [] t = "x" -> 1
      [] t = "example.com" -> 11
      [] t = "4111 1111 1111 1111" -> 19
      [] OTHER -> 1

-----------------------------------------------------------------------------
(* State helpers (dicts are functions whose domain is the set of keys)     *)

DictPop(d, k) == [x \in DOMAIN d \ {k} |-> d[x]]

DictSet(d, k, v) == [x \in DOMAIN d \cup {k} |-> IF x = k THEN v ELSE d[x]]

Sessions == DOMAIN cleanRun

get_mode(c) == IF c \in DOMAIN modes THEN modes[c] ELSE DEFAULT_MODE

set_mode(c, mode) == DictSet(modes, c, mode)

EmptyPending == [texts |-> <<>>, files |-> <<>>]

\* pendings.setdefault(chat_id, {...}): the dict after the call
get_pending(c) ==
    IF c \in DOMAIN pending THEN pending ELSE DictSet(pending, c, EmptyPending)

\* _clear_pending that leaves the entry in the dict
clear_pending_keeps(d, c) == d

\* _clear_pending that empties the whole dict, every chat's entry
clear_pending_all(d, c) == << >>

clear_pending(d, c) == DictPop(d, c)

EmptyMerge == [files |-> <<>>, total_bytes |-> 0]

start_merge(c) == DictSet(merge, c, EmptyMerge)

\* _cancel_merge that leaves the entry in the dict
cancel_merge_keeps(d, c) == d

cancel_merge(d, c) == DictPop(d, c)

\* _is_merging that never finds the chat
is_merging_never(c) == FALSE

is_merging(c) == c \in DOMAIN merge

\* _add_merge_file that forgets total_bytes
add_merge_file_no_total(c, file_id, file_size, file_name) ==
    LET entry == IF c \in DOMAIN merge THEN merge[c] ELSE EmptyMerge
    IN  DictSet(merge, c,
            [files |-> Append(entry.files,
                          [file_id |-> file_id, file_size |-> file_size,
                           file_name |-> file_name]),
             total_bytes |-> entry.total_bytes])

add_merge_file(c, file_id, file_size, file_name) ==
    LET entry == IF c \in DOMAIN merge THEN merge[c] ELSE EmptyMerge
    IN  DictSet(merge, c,
            [files |-> Append(entry.files,
                          [file_id |-> file_id, file_size |-> file_size,
                           file_name |-> file_name]),
             total_bytes |-> entry.total_bytes + file_size])

get_merge_files(c) == IF c \in DOMAIN merge THEN merge[c].files ELSE <<>>

\* The buckets as the handlers see them (an absent key reads as empty)
PendingTexts(c) == IF c \in DOMAIN pending THEN pending[c].texts ELSE <<>>
PendingFiles(c) == IF c \in DOMAIN pending THEN pending[c].files ELSE <<>>

RECURSIVE SumSizes(_)
SumSizes(files) ==
    IF files = <<>> THEN 0
    ELSE files[1].file_size + SumSizes(Tail(files))

RECURSIVE SumTextBytes(_)
SumTextBytes(texts) ==
    IF texts = <<>> THEN 0
    ELSE Utf8Len(texts[1]) + SumTextBytes(Tail(texts))

-----------------------------------------------------------------------------
(* Replies                                                                 *)

\* One send to the transport: a text reply, a document reply or a file fetch
Reply(c, msg) == <<[chat |-> c, kind |-> "reply", what |-> msg]>>
Document(c, a) == <<[chat |-> c, kind |-> "document", what |-> a]>>
Fetch(c, file_id) == <<[chat |-> c, kind |-> "fetch", what |-> file_id]>>
\* A coroutine that had awaited returns to the dispatcher
Returned(c, handler) == <<[chat |-> c, kind |-> "return", what |-> handler]>>

-----------------------------------------------------------------------------
(* The two pipelines on the vocabulary of the inputs. The session layer    *)
(* only needs the lists they return for a blob; a blob is kept as the      *)
(* sequence of its newline-joined parts (neither grammar matches across a  *)
(* newline).                                                               *)

\* URL_REGEX matches of one part, already reduced to a Site for the mode
SitesOfPart(part, mode) ==
    CASE part = "example.com" -> <<"https://example.com">>
      [] part = "shop.example.com 4111111111111111" ->
            IF mode = "apex" THEN <<"https://example.com">>
            ELSE <<"https://shop.example.com">>
      [] OTHER -> <<>>

\* CC_CANDIDATE_RE matches of one part that pass the length and Luhn tests
CardsOfPart(part) ==
    CASE part = "4111 1111 1111 1111" -> <<"Visa:4111111111111111">>
      [] part = "shop.example.com 4111111111111111" -> <<"Visa:4111111111111111">>
      [] OTHER -> <<>>

RECURSIVE Dedupe(_, _)
Dedupe(s, seen) ==
    IF s = <<>> THEN <<>>
    ELSE IF Head(s) \in seen THEN Dedupe(Tail(s), seen)
    ELSE <<Head(s)>> \o Dedupe(Tail(s), seen \cup {Head(s)})

RECURSIVE FlatSites(_, _)
FlatSites(parts, mode) ==
    IF parts = <<>> THEN <<>>
    ELSE SitesOfPart(Head(parts), mode) \o FlatSites(Tail(parts), mode)

RECURSIVE FlatCards(_)
FlatCards(parts) ==
    IF parts = <<>> THEN <<>>
    ELSE CardsOfPart(Head(parts)) \o FlatCards(Tail(parts))

SitesOfBlob(parts, mode) == Dedupe(FlatSites(parts, mode), {})

CardsOfBlob(parts) == Dedupe(FlatCards(parts), {})

\* The bytes Telegram serves for a file id, decoded
ContentOf(file_id) ==
    CASE file_id = "f1" -> "example.com"
      [] file_id = "f2" -> "4111 1111 1111 1111"
      [] file_id = "f3" -> "shop.example.com 4111111111111111"
      [] OTHER -> "x"

-----------------------------------------------------------------------------
(* The coroutines in flight                                                *)

\* Locals of a clean_cmd / done_cmd run. `texts` and `files` are references
\* to the lists of the dict entry read at the start: while that entry is
\* still the one in the dict (live) they are read through the dict, and once
\* it has been popped they are the lists as they were when it was popped.
IdleRun ==
    [pc |-> "idle", live |-> FALSE, texts |-> <<>>, files |-> <<>>,
     mode |-> DEFAULT_MODE, idx |-> 0, parts |-> <<>>, todo |-> <<>>]

CleanTexts(c) == IF cleanRun[c].live THEN pending[c].texts ELSE cleanRun[c].texts
CleanFiles(c) == IF cleanRun[c].live THEN pending[c].files ELSE cleanRun[c].files
DoneFiles(c) == IF doneRun[c].live THEN merge[c].files ELSE doneRun[c].files

\* pendings.pop(chat_id): a run that still reads the popped entry keeps it
DetachClean(c) ==
    IF cleanRun[c].live
    THEN [cleanRun EXCEPT ![c].live = FALSE,
                          ![c].texts = pending[c].texts,
                          ![c].files = pending[c].files]
    ELSE cleanRun

\* merges.pop(chat_id): likewise for a done_cmd run
DetachDone(c) ==
    IF doneRun[c].live
    THEN [doneRun EXCEPT ![c].live = FALSE, ![c].files = merge[c].files]
    ELSE doneRun

\* The card list sent before the URL list
Artifacts_cards_first(sites, cards, nothing) ==
    LET a == (IF cards # <<>> THEN <<[kind |-> "document", what |-> "cards", lines |-> cards]>> ELSE <<>>)
             \o (IF sites # <<>> THEN <<[kind |-> "document", what |-> "sites", lines |-> sites]>> ELSE <<>>)
    IN  IF a = <<>> THEN <<[kind |-> "reply", what |-> nothing, lines |-> <<>>]>> ELSE a

\* The replies a run owes once it has its blob: URL list, then card list,
\* or the single "nothing found" text
Artifacts(sites, cards, nothing) ==
    LET a == (IF sites # <<>> THEN <<[kind |-> "document", what |-> "sites", lines |-> sites]>> ELSE <<>>)
             \o (IF cards # <<>> THEN <<[kind |-> "document", what |-> "cards", lines |-> cards]>> ELSE <<>>)
    IN  IF a = <<>> THEN <<[kind |-> "reply", what |-> nothing, lines |-> <<>>]>> ELSE a

Send(c, a) == <<[chat |-> c, kind |-> a.kind, what |-> a.what]>>

-----------------------------------------------------------------------------------------------------------------------------------------------------
(* Handlers that touch the state in one await-free stretch. Each replies   *)
(* once; the reply is given as an operator of the state and the event      *)
(* (<handler>_reply), the state change as the action.                      *)

\* mode_cmd without the membership test
mode_cmd_reply_any(c, arg0) == "Mode set"

mode_cmd_reply(c, arg0) ==
    IF Lower(arg0) \notin {"apex", "host"}
    THEN "Usage: /mode apex or /mode host"
    ELSE "Mode set"

mode_cmd(c, arg0) ==
    /\ modes' = IF mode_cmd_reply(c, arg0) = "Mode set"
                THEN set_mode(c, Lower(arg0))
                ELSE modes
    /\ out' = <<>>
    /\ UNCHANGED <<pending, merge, cleanRun, doneRun>>

\* data is the callback string, split after its first ":"
settings_cb_reply(c, data) ==
    IF data.head = "mode:" /\ data.rest \in {"apex", "host"}
    THEN "Mode set"
    ELSE ""

settings_cb(c, data) ==
    /\ modes' = IF settings_cb_reply(c, data) = "Mode set"
                THEN set_mode(c, data.rest)
                ELSE modes
    /\ out' = <<>>
    /\ UNCHANGED <<pending, merge, cleanRun, doneRun>>

pending_cmd(c) ==
    /\ pending' = get_pending(c)
    /\ out' = <<>>
    /\ UNCHANGED <<modes, merge, cleanRun, doneRun>>

clear_pending_cmd(c) ==
    /\ pending' = clear_pending(pending, c)
    /\ cleanRun' = DetachClean(c)
    /\ out' = <<>>
    /\ UNCHANGED <<modes, merge, doneRun>>

merge_cmd_reply(c) ==
    IF is_merging(c) THEN "You already have an active merge session."
    ELSE "Merge mode started"

\* merge_cmd without the test for an active session: it starts over
merge_cmd_restarts(c) ==
    /\ merge' = start_merge(c)
    /\ out' = <<>>
    /\ UNCHANGED <<modes, pending, cleanRun, doneRun>>

merge_cmd(c) ==
    /\ merge' = IF merge_cmd_reply(c) = "Merge mode started"
                THEN start_merge(c)
                ELSE merge
    /\ out' = <<>>
    /\ UNCHANGED <<modes, pending, cleanRun, doneRun>>

merge_cancel_cmd_reply(c) ==
    IF ~is_merging(c) THEN "No active merge session to cancel."
    ELSE "Merge session cancelled."

merge_cancel_cmd(c) ==
    /\ IF merge_cancel_cmd_reply(c) = "Merge session cancelled."
       THEN /\ merge' = cancel_merge(merge, c)
            /\ doneRun' = DetachDone(c)
       ELSE /\ merge' = merge
            /\ doneRun' = doneRun
    /\ out' = <<>>
    /\ UNCHANGED <<modes, pending, cleanRun>>

handle_text_reply(c, text) ==
    IF is_merging(c) THEN "You're in merge mode."
    ELSE IF SumTextBytes(get_pending(c)[c].texts) > MAX_PENDING_TOTAL_BYTES
    THEN "Pending text storage limit reached."
    ELSE "Saved your text."

handle_text(c, text) ==
    /\ pending' =
          IF is_merging(c) THEN pending
          ELSE IF handle_text_reply(c, text) = "Saved your text."
          THEN [get_pending(c) EXCEPT ![c].texts = Append(@, text)]
          ELSE get_pending(c)
    /\ out' = <<>>
    /\ UNCHANGED <<modes, merge, cleanRun, doneRun>>

IsTxt(doc) ==
    \/ Lower(doc.mime_type) = "text/plain"
    \/ Lower(doc.file_name.ext) = ".txt"

\* doc.file_name or "file.txt"
StoredName(doc) ==
    IF doc.file_name = NoName THEN [stem |-> "file", ext |-> ".txt"]
    ELSE doc.file_name

\* The count test with > for >=
MergeIsFull_off_by_one(c) == Len(get_merge_files(c)) > MAX_MERGE_FILES

\* len(files) >= MAX_MERGE_FILES
MergeIsFull(c) == Len(get_merge_files(c)) >= MAX_MERGE_FILES

\* The early returns of handle_document, in the order of the code
handle_document_reply(c, doc) ==
    IF is_merging(c)
    THEN IF ~IsTxt(doc)
         THEN "Unsupported file type for merging."
         ELSE IF doc.file_size > MAX_SINGLE_FILE_BYTES
         THEN "File too large. Skipping this file."
         ELSE IF MergeIsFull(c)
         THEN "Reached maximum number of merge files."
         ELSE IF SumSizes(get_merge_files(c)) + doc.file_size > MAX_TOTAL_MERGE_BYTES
         THEN "Adding this file would exceed total merge size limit."
         ELSE "File added to merge"
    ELSE IF ~IsTxt(doc)
         THEN "Unsupported file type."
         ELSE IF doc.file_size > MAX_SINGLE_FILE_BYTES
         THEN "File too large."
         ELSE IF SumSizes(get_pending(c)[c].files) + doc.file_size > MAX_PENDING_TOTAL_BYTES
         THEN "Adding this file would exceed pending storage limit."
         ELSE "Saved file to pending"

handle_document(c, doc) ==
    LET reply == handle_document_reply(c, doc)
    IN  /\ merge' =
              IF reply = "File added to merge"
              THEN add_merge_file(c, doc.file_id, doc.file_size, StoredName(doc))
              ELSE merge
        /\ pending' =
              IF reply = "Saved file to pending"
              THEN [get_pending(c) EXCEPT ![c].files = Append(@,
                       [file_id |-> doc.file_id, file_name |-> StoredName(doc),
                        file_size |-> doc.file_size])]
              ELSE IF reply = "Adding this file would exceed pending storage limit."
              THEN get_pending(c)
              ELSE pending
        /\ out' = <<>>
        /\ UNCHANGED <<modes, cleanRun, doneRun>>

-----
(* clean_cmd: /clean, a coroutine that awaits every fetch and every reply  *)

\* The blob joined with the texts before the file contents
CleanCompute_texts_first(c, parts, texts) ==
    LET combined == texts \o parts
        arts == Artifacts(SitesOfBlob(combined, cleanRun[c].mode),
                          CardsOfBlob(combined),
                          "No valid URLs or credit card numbers found in your pending items.")
    IN  /\ cleanRun' = [cleanRun EXCEPT ![c].pc = "send", ![c].live = FALSE,
                                        ![c].texts = <<>>, ![c].files = <<>>,
                                        ![c].parts = combined,
                                        ![c].todo = Tail(arts)]
        /\ out' = Send(c, Head(arts))

\* After the loop: join, run both pipelines, issue the first reply
CleanCompute(c, parts, texts) ==
    LET combined == parts \o texts
        arts == Artifacts(SitesOfBlob(combined, cleanRun[c].mode),
                          CardsOfBlob(combined),
                          "No valid URLs or credit card numbers found in your pending items.")
    IN  /\ cleanRun' = [cleanRun EXCEPT ![c].pc = "send", ![c].live = FALSE,
                                        ![c].texts = <<>>, ![c].files = <<>>,
                                        ![c].parts = combined,
                                        ![c].todo = Tail(arts)]
        /\ out' = Send(c, Head(arts))

\* Past the precondition, up to the first await: the mode, then the first
\* fetch, or with no file the blob and the first reply
CleanStart(c, texts, files) ==
    /\ cleanRun[c].pc = "idle"
    /\ IF files = <<>>
       THEN LET arts == Artifacts(SitesOfBlob(texts, get_mode(c)),
                                  CardsOfBlob(texts),
                                  "No valid URLs or credit card numbers found in your pending items.")
            IN  /\ cleanRun' = [cleanRun EXCEPT ![c] =
                      [IdleRun EXCEPT !.pc = "send", !.mode = get_mode(c),
                                      !.parts = texts, !.todo = Tail(arts)]]
                /\ out' = Send(c, Head(arts))
       ELSE /\ cleanRun' = [cleanRun EXCEPT ![c] =
                  [IdleRun EXCEPT !.pc = "fetch", !.live = TRUE,
                                  !.mode = get_mode(c)]]
            /\ out' = Fetch(c, files[1].file_id)

\* clean_cmd without the early return of its precondition
clean_cmd_no_return(c) ==
    LET p == get_pending(c)
    IN  /\ pending' = p
        /\ CleanStart(c, p[c].texts, p[c].files)
        /\ UNCHANGED <<modes, merge, doneRun>>

clean_cmd(c) ==
    LET p == get_pending(c)
        texts == p[c].texts
        files == p[c].files
    IN  /\ pending' = p
        /\ IF texts = <<>> /\ files = <<>>
           THEN /\ cleanRun' = cleanRun
                /\ out' = Reply(c, "No pending items to clean.")
           ELSE CleanStart(c, texts, files)
        /\ UNCHANGED <<modes, merge, doneRun>>

\* A loop whose except clause does not go on: after a failed fetch the run
\* stays where it is, and never replies
clean_fetch_stops(c, ok) ==
    /\ cleanRun[c].pc = "fetch"
    /\ LET r == cleanRun[c]
           files == CleanFiles(c)
           parts == Append(r.parts, ContentOf(files[r.idx + 1].file_id))
       IN  IF ~ok
           THEN /\ cleanRun' = [cleanRun EXCEPT ![c].pc = "stopped"]
                /\ out' = <<>>
           ELSE IF r.idx + 1 < Len(files)
           THEN /\ cleanRun' = [cleanRun EXCEPT ![c].idx = r.idx + 1, ![c].parts = parts]
                /\ out' = Fetch(c, files[r.idx + 2].file_id)
           ELSE CleanCompute(c, parts, CleanTexts(c))
    /\ UNCHANGED <<modes, pending, merge, doneRun>>

\* A fetch returns: bytes (ok) or an exception, then the loop goes on
clean_fetch(c, ok) ==
    /\ cleanRun[c].pc = "fetch"
    /\ LET r == cleanRun[c]
           files == CleanFiles(c)
           parts == IF ok THEN Append(r.parts, ContentOf(files[r.idx + 1].file_id))
                    ELSE r.parts
       IN  IF r.idx + 1 < Len(files)
           THEN /\ cleanRun' = [cleanRun EXCEPT ![c].idx = r.idx + 1, ![c].parts = parts]
                /\ out' = Fetch(c, files[r.idx + 2].file_id)
           ELSE CleanCompute(c, parts, CleanTexts(c))
    /\ UNCHANGED <<modes, pending, merge, doneRun>>

\* A reply returns and another artifact is owed
clean_send(c) ==
    /\ cleanRun[c].pc = "send"
    /\ cleanRun[c].todo # <<>>
    /\ cleanRun' = [cleanRun EXCEPT ![c].todo = Tail(@)]
    /\ out' = Send(c, Head(cleanRun[c].todo))
    /\ UNCHANGED <<modes, pending, merge, doneRun>>

\* clean_cmd that drops the whole session, mode included, at its end
clean_end_resets_mode(c) ==
    /\ cleanRun[c].pc = "send"
    /\ cleanRun[c].todo = <<>>
    /\ pending' = clear_pending(pending, c)
    /\ modes' = DictPop(modes, c)
    /\ cleanRun' = [cleanRun EXCEPT ![c] = IdleRun]
    /\ out' = Returned(c, "clean_cmd")
    /\ UNCHANGED <<merge, doneRun>>

\* The last reply returns: _clear_pending, and the handler is done
clean_end(c) ==
    /\ cleanRun[c].pc = "send"
    /\ cleanRun[c].todo = <<>>
    /\ pending' = clear_pending(pending, c)
    /\ cleanRun' = [cleanRun EXCEPT ![c] = IdleRun]
    /\ out' = Returned(c, "clean_cmd")
    /\ UNCHANGED <<modes, merge, doneRun>>

-----------------------------------------------------------------------------
(* done_cmd: /done, likewise                                               *)

done_cmd(c) ==
    /\ IF ~is_merging(c)
       THEN /\ merge' = merge
            /\ doneRun' = doneRun
            /\ out' = Reply(c, "No active merge session.")
       ELSE LET files == get_merge_files(c)
            IN  IF files = <<>>
                THEN /\ merge' = cancel_merge(merge, c)
                     /\ doneRun' = DetachDone(c)
                     /\ out' = Reply(c, "No files were uploaded. Merge cancelled.")
                ELSE IF SumSizes(files) > MAX_TOTAL_MERGE_BYTES
                THEN /\ merge' = cancel_merge(merge, c)
                     /\ doneRun' = DetachDone(c)
                     /\ out' = Reply(c, "Total uploaded files exceed allowed size. Merge cancelled.")
                ELSE /\ doneRun[c].pc = "idle"
                     /\ merge' = merge
                     /\ doneRun' = [doneRun EXCEPT ![c] =
                           [IdleRun EXCEPT !.pc = "fetch", !.live = TRUE,
                                           !.mode = get_mode(c)]]
                     /\ out' = Fetch(c, files[1].file_id)
    /\ UNCHANGED <<modes, pending, cleanRun>>

done_fetch(c, ok) ==
    /\ doneRun[c].pc = "fetch"
    /\ LET r == doneRun[c]
           files == DoneFiles(c)
           merged_texts == IF ok THEN Append(r.parts, ContentOf(files[r.idx + 1].file_id))
                           ELSE r.parts
       IN  IF r.idx + 1 < Len(files)
           THEN /\ doneRun' = [doneRun EXCEPT ![c].idx = r.idx + 1, ![c].parts = merged_texts]
                /\ merge' = merge
                /\ out' = Fetch(c, files[r.idx + 2].file_id)
           ELSE IF merged_texts = <<>>
           THEN /\ merge' = cancel_merge(merge, c)
                /\ doneRun' = [doneRun EXCEPT ![c] = IdleRun]
                /\ out' = Reply(c, "Couldn't download any files. Merge cancelled.")
           ELSE LET arts == Artifacts(SitesOfBlob(merged_texts, r.mode),
                                      CardsOfBlob(merged_texts),
                                      "No site URLs or credit cards found in merged files.")
                IN  /\ merge' = merge
                    /\ doneRun' = [doneRun EXCEPT ![c].pc = "send", ![c].live = FALSE,
                                                  ![c].files = <<>>,
                                                  ![c].parts = merged_texts,
                                                  ![c].todo = Tail(arts)]
                    /\ out' = Send(c, Head(arts))
    /\ UNCHANGED <<modes, pending, cleanRun>>

done_send(c) ==
    /\ doneRun[c].pc = "send"
    /\ doneRun[c].todo # <<>>
    /\ doneRun' = [doneRun EXCEPT ![c].todo = Tail(@)]
    /\ out' = Send(c, Head(doneRun[c].todo))
    /\ UNCHANGED <<modes, pending, merge, cleanRun>>

done_end(c) ==
    /\ doneRun[c].pc = "send"
    /\ doneRun[c].todo = <<>>
    /\ merge' = cancel_merge(merge, c)
    /\ doneRun' = [doneRun EXCEPT ![c] = IdleRun]
    /\ out' = Returned(c, "done_cmd")
    /\ UNCHANGED <<modes, pending, cleanRun>>

-----------------------------------------------------------------------------
(* The model of concurrent handlers: every handler of one chat, with the   *)
(* clean_cmd and done_cmd coroutines interleaving with the others          *)

Chats == {1}

Texts == {"4111 1111 1111 1111"}

Docs ==
    { Doc("f3", "a", ".txt", "text/plain", 1),
      Doc("f9", "b", ".bin", "application/zip", 1),
      Doc("f8", "c", ".TXT", "", MAX_SINGLE_FILE_BYTES + 1) }

ModeArgs == {"apex", "HOST", "fast", ""}

CallbackData ==
    { [head |-> "mode:", rest |-> "apex"], [head |-> "mode:", rest |-> "host"],
      [head |-> "mode:", rest |-> "fast"] }

\* The buckets stay within the bounds of the model
Within(nt, nf) ==
    /\ \A c \in DOMAIN pending' :
          Len(pending'[c].texts) <= nt /\ Len(pending'[c].files) <= nf
    /\ \A c \in DOMAIN merge' : Len(merge'[c].files) <= nf

InitFor(chats) ==
    /\ modes = << >>
    /\ pending = << >>
    /\ merge = << >>
    /\ cleanRun = [c \in chats |-> IdleRun]
    /\ doneRun = [c \in chats |-> IdleRun]
    /\ out = << >>

Init == InitFor(Chats)

Next ==
    \E c \in Chats :
        \/ \E a \in ModeArgs : mode_cmd(c, a)
        \/ \E d \in CallbackData : settings_cb(c, d)
        \/ pending_cmd(c)
        \/ clear_pending_cmd(c)
        \/ merge_cmd(c)
        \/ merge_cancel_cmd(c)
        \/ \E t \in Texts : handle_text(c, t) /\ Within(MaxTexts, MaxFiles)
        \/ \E d \in Docs : handle_document(c, d) /\ Within(MaxTexts, MaxFiles)
        \/ clean_cmd(c)
        \/ \E ok \in BOOLEAN : clean_fetch(c, ok)
        \/ clean_send(c)
        \/ clean_end(c)
        \/ done_cmd(c)
        \/ \E ok \in BOOLEAN : done_fetch(c, ok)
        \/ done_send(c)
        \/ done_end(c)

Spec == Init /\ [][Next]_vars

-----------------------------------------------------------------------------
(* The model of accumulation up to the caps: the handlers that fill and    *)
(* empty the buckets, with documents of the sizes that reach every cap     *)

CapTexts == {"x"}

\* Offered while a merge session is open: empty files reach the count cap,
\* 10 MiB files the cumulative cap
MergeDocs ==
    { Doc("f1", "a", ".txt", "text/plain", 0),
      Doc("f2", "", "", "TEXT/PLAIN", MAX_SINGLE_FILE_BYTES),
      Doc("f8", "c", ".TXT", "", MAX_SINGLE_FILE_BYTES + 1),
      Doc("f9", "b", ".bin", "application/zip", 1) }

\* Offered otherwise: five 5 MiB files fill the pending cap exactly
PendingDocs ==
    { Doc("f3", "d", ".txt", "", 5 * 1024 * 1024),
      Doc("f8", "c", ".TXT", "", MAX_SINGLE_FILE_BYTES + 1),
      Doc("f9", "b", ".bin", "application/zip", 1) }

InitCaps == InitFor(Chats)

NextCaps ==
    \E c \in Chats :
        \/ pending_cmd(c)
        \/ clear_pending_cmd(c)
        \/ merge_cmd(c)
        \/ merge_cancel_cmd(c)
        \/ \E t \in CapTexts : handle_text(c, t) /\ Within(MaxTexts, MAX_MERGE_FILES)
        \/ \E d \in (IF is_merging(c) THEN MergeDocs ELSE PendingDocs) :
              handle_document(c, d)

SpecCaps == InitCaps /\ [][NextCaps]_vars

-----------------------------------------------------------------------------
(* The model of two sessions: the handlers of two chats interleave at every *)
(* await, the events of one chat being delivered one at a time (a new event *)
(* of a chat is taken when no clean_cmd or done_cmd run of that chat is in  *)
(* flight; the interleavings within one chat are those of Spec)            *)

IsoChats == {1, 2}

IsoArgs == {"host"}

IsoDocs == { Doc("f3", "a", ".txt", "text/plain", 1) }

\* No coroutine of the chat is suspended at an await
Quiet(c) == cleanRun[c].pc = "idle" /\ doneRun[c].pc = "idle"

InitIso == InitFor(IsoChats)

NextIso ==
    \E c \in IsoChats :
        \/ Quiet(c) /\ \E a \in IsoArgs : mode_cmd(c, a)
        \/ Quiet(c) /\ clear_pending_cmd(c)
        \/ Quiet(c) /\ merge_cmd(c)
        \/ Quiet(c) /\ merge_cancel_cmd(c)
        \/ Quiet(c) /\ \E t \in Texts : handle_text(c, t) /\ Within(MaxTexts, MaxFiles)
        \/ Quiet(c) /\ \E d \in IsoDocs : handle_document(c, d) /\ Within(MaxTexts, MaxFiles)
        \/ Quiet(c) /\ clean_cmd(c)
        \/ \E ok \in BOOLEAN : clean_fetch(c, ok)
        \/ clean_send(c)
        \/ clean_end(c)
        \/ Quiet(c) /\ done_cmd(c)
        \/ \E ok \in BOOLEAN : done_fetch(c, ok)
        \/ done_send(c)
        \/ done_end(c)

SpecIso == InitIso /\ [][NextIso]_vars

-----------------------------------------------------------------------------
(* The model of processing runs: one chat whose texts and documents hold   *)
(* a site, a card, both or neither, so that a run meets every outcome.     *)
(* Texts and documents arrive at any time, also while a run awaits (they   *)
(* reach the lists the run reads); a command is taken when no run is in    *)
(* flight.                                                                 *)

RunTexts == {"x", "example.com"}

RunDocs ==
    { Doc("f1", "c", ".txt", "text/plain", 1),
      Doc("f2", "a", ".txt", "text/plain", 1),
      Doc("f3", "b", ".txt", "text/plain", 1),
      Doc("f4", "d", ".txt", "text/plain", 1) }

InitRuns == InitFor(Chats)

NextRuns ==
    \E c \in Chats :
        \/ Quiet(c) /\ \E a \in IsoArgs : mode_cmd(c, a)
        \/ Quiet(c) /\ merge_cmd(c)
        \/ \E t \in RunTexts : handle_text(c, t) /\ Within(MaxTexts, MaxFiles)
        \/ \E d \in RunDocs : handle_document(c, d) /\ Within(MaxTexts, MaxFiles)
        \/ Quiet(c) /\ clean_cmd(c)
        \/ \E ok \in BOOLEAN : clean_fetch(c, ok)
        \/ clean_send(c)
        \/ clean_end(c)
        \/ Quiet(c) /\ done_cmd(c)
        \/ \E ok \in BOOLEAN : done_fetch(c, ok)
        \/ done_send(c)
        \/ done_end(c)

SpecRuns == InitRuns /\ [][NextRuns]_vars

\* The event loop resumes a coroutine whose await has returned: every fetch
\* returns (bytes or an exception) and every reply returns
FairRuns ==
    /\ SpecRuns
    /\ \A c \in Chats :
          /\ WF_vars(\E ok \in BOOLEAN : clean_fetch(c, ok))
          /\ WF_vars(clean_send(c))
          /\ WF_vars(clean_end(c))
          /\ WF_vars(\E ok \in BOOLEAN : done_fetch(c, ok))
          /\ WF_vars(done_send(c))
          /\ WF_vars(done_end(c))

-----------------------------------------------------------------------------
(* The card extractor, character by character. A text is the sequence of   *)
(* its characters, each a one-character string; "u0663" stands for the    *)
(* character U+0663 (ARABIC-INDIC DIGIT THREE), which \d matches in a str  *)
(* pattern and [0-9] does not.                                             *)

AsciiDigits == {"0", "1", "2", "3", "4", "5", "6", "7", "8", "9"}

\* ord(ch) - 48
DigitValue ==
    ("0" :> 0) @@ ("1" :> 1) @@ ("2" :> 2) @@ ("3" :> 3) @@ ("4" :> 4) @@
    ("5" :> 5) @@ ("6" :> 6) @@ ("7" :> 7) @@ ("8" :> 8) @@ ("9" :> 9)

\* \d of a str pattern
IsReDigit(ch) == ch \in AsciiDigits \cup {"u0663"}

\* [ -]* from position i: the position after it
RECURSIVE SkipSeps(_, _)
SkipSeps(text, i) ==
    IF i <= Len(text) /\ text[i] \in {" ", "-"} THEN SkipSeps(text, i + 1) ELSE i

\* (?:\d[ -]*){13,19} tried at a position, k repetitions done and the scan at
\* i: greedy, it repeats while it can and it is below 19; <<end, repetitions>>
RECURSIVE CCMatchEnd(_, _, _)
CCMatchEnd(text, i, k) ==
    IF k < 19 /\ i <= Len(text) /\ IsReDigit(text[i])
    THEN CCMatchEnd(text, SkipSeps(text, i + 1), k + 1)
    ELSE <<i, k>>

\* CC_CANDIDATE_RE.findall(text) from position p: leftmost matches, each scan
\* resuming where the last match ended
RECURSIVE CC_CANDIDATE_RE_findall(_, _)
CC_CANDIDATE_RE_findall(text, p) ==
    IF p > Len(text) THEN <<>>
    ELSE LET m == CCMatchEnd(text, p, 0)
         IN  IF m[2] >= 13
             THEN <<SubSeq(text, p, m[1] - 1)>> \o CC_CANDIDATE_RE_findall(text, m[1])
             ELSE CC_CANDIDATE_RE_findall(text, p + 1)

\* re.sub(r'[^0-9]', '', s)
RECURSIVE digits_only(_)
digits_only(s) ==
    IF s = <<>> THEN <<>>
    ELSE (IF Head(s) \in AsciiDigits THEN <<Head(s)>> ELSE <<>>) \o digits_only(Tail(s))

\* The loop of luhn_check over reverse_digits from index i, total so far
RECURSIVE LuhnLoop(_, _, _)
LuhnLoop(reverse_digits, i, total) ==
    IF i >= Len(reverse_digits) THEN total
    ELSE LET d0 == DigitValue[reverse_digits[i + 1]]
             d == IF i % 2 = 1
                  THEN (IF d0 * 2 > 9 THEN d0 * 2 - 9 ELSE d0 * 2)
                  ELSE d0
         IN  LuhnLoop(reverse_digits, i + 1, total + d)

\* card_number[::-1]
Reversed(s) == [i \in 1..Len(s) |-> s[Len(s) + 1 - i]]

\* luhn_check that doubles the even indices of the reversed string
luhn_check_even(card_number) ==
    LuhnLoop(<<"0">> \o Reversed(card_number), 0, 0) % 10 = 0

luhn_check(card_number) ==
    LuhnLoop(Reversed(card_number), 0, 0) % 10 = 0

\* n.startswith(prefix)
StartsWith(n, prefix) ==
    Len(n) >= Len(prefix) /\ SubSeq(n, 1, Len(prefix)) = prefix

\* int(n[:k]) if len(n) >= k else 0
RECURSIVE IntOf(_)
IntOf(s) ==
    IF s = <<>> THEN 0
    ELSE 10 * IntOf(SubSeq(s, 1, Len(s) - 1)) + DigitValue[s[Len(s)]]

Leading(n, k) == IF Len(n) >= k THEN IntOf(SubSeq(n, 1, k)) ELSE 0

\* detect_card_type with the Maestro/Other test moved before the Discover test
detect_card_type_maestro_first(card_number) ==
    LET n == card_number
        ln == Len(n)
        two == Leading(n, 2)
        three == Leading(n, 3)
        six == Leading(n, 6)
    IN  IF ln \in {13, 16, 19} /\ StartsWith(n, <<"4">>) THEN "Visa"
        ELSE IF ln = 15 /\ (StartsWith(n, <<"3", "4">>) \/ StartsWith(n, <<"3", "7">>))
        THEN "American Express"
        ELSE IF ln = 16 /\ ((51 <= two /\ two <= 55)
                              \/ (2221 <= IntOf(SubSeq(n, 1, 4)) /\ IntOf(SubSeq(n, 1, 4)) <= 2720))
        THEN "MasterCard"
        ELSE IF 12 <= ln /\ ln <= 19
                /\ (StartsWith(n, <<"5", "0">>) \/ StartsWith(n, <<"5", "6">>)
                    \/ StartsWith(n, <<"5", "7">>) \/ StartsWith(n, <<"5", "8">>)
                    \/ StartsWith(n, <<"6">>))
        THEN "Maestro/Other"
        ELSE IF ln \in {16, 19}
                /\ (StartsWith(n, <<"6", "0", "1", "1">>) \/ StartsWith(n, <<"6", "5">>)
                    \/ (644 <= three /\ three <= 649)
                    \/ (622126 <= six /\ six <= 622925))
        THEN "Discover"
        ELSE IF 16 <= ln /\ ln <= 19 /\ 3528 <= three /\ three <= 3589 THEN "JCB"
        ELSE IF ln = 14 /\ ((300 <= three /\ three <= 305)
                              \/ StartsWith(n, <<"3", "6">>) \/ StartsWith(n, <<"3", "8">>))
        THEN "Diners Club"
        ELSE "Unknown"

\* detect_card_type whose JCB test reads the first four digits
detect_card_type_jcb_four(card_number) ==
    LET n == card_number
        ln == Len(n)
        two == Leading(n, 2)
        three == Leading(n, 3)
        four == Leading(n, 4)
        six == Leading(n, 6)
    IN  IF ln \in {13, 16, 19} /\ StartsWith(n, <<"4">>) THEN "Visa"
        ELSE IF ln = 15 /\ (StartsWith(n, <<"3", "4">>) \/ StartsWith(n, <<"3", "7">>))
        THEN "American Express"
        ELSE IF ln = 16 /\ ((51 <= two /\ two <= 55)
                              \/ (2221 <= IntOf(SubSeq(n, 1, 4)) /\ IntOf(SubSeq(n, 1, 4)) <= 2720))
        THEN "MasterCard"
        ELSE IF ln \in {16, 19}
                /\ (StartsWith(n, <<"6", "0", "1", "1">>) \/ StartsWith(n, <<"6", "5">>)
                    \/ (644 <= three /\ three <= 649)
                    \/ (622126 <= six /\ six <= 622925))
        THEN "Discover"
        ELSE IF 16 <= ln /\ ln <= 19 /\ 3528 <= four /\ four <= 3589 THEN "JCB"
        ELSE IF ln = 14 /\ ((300 <= three /\ three <= 305)
                              \/ StartsWith(n, <<"3", "6">>) \/ StartsWith(n, <<"3", "8">>))
        THEN "Diners Club"
        ELSE IF 12 <= ln /\ ln <= 19
                /\ (StartsWith(n, <<"5", "0">>) \/ StartsWith(n, <<"5", "6">>)
                    \/ StartsWith(n, <<"5", "7">>) \/ StartsWith(n, <<"5", "8">>)
                    \/ StartsWith(n, <<"6">>))
        THEN "Maestro/Other"
        ELSE "Unknown"

detect_card_type(card_number) ==
    LET n == card_number
        ln == Len(n)
        two == Leading(n, 2)
        three == Leading(n, 3)
        four == Leading(n, 4)
        six == Leading(n, 6)
    IN  IF ln \in {13, 16, 19} /\ StartsWith(n, <<"4">>) THEN "Visa"
        ELSE IF ln = 15 /\ (StartsWith(n, <<"3", "4">>) \/ StartsWith(n, <<"3", "7">>))
        THEN "American Express"
        ELSE IF ln = 16 /\ ((51 <= two /\ two <= 55)
                              \/ (2221 <= IntOf(SubSeq(n, 1, 4)) /\ IntOf(SubSeq(n, 1, 4)) <= 2720))
        THEN "MasterCard"
        ELSE IF ln \in {16, 19}
                /\ (StartsWith(n, <<"6", "0", "1", "1">>) \/ StartsWith(n, <<"6", "5">>)
                    \/ (644 <= three /\ three <= 649)
                    \/ (622126 <= six /\ six <= 622925))
        THEN "Discover"
        ELSE IF 16 <= ln /\ ln <= 19 /\ 3528 <= three /\ three <= 3589 THEN "JCB"
        ELSE IF ln = 14 /\ ((300 <= three /\ three <= 305)
                              \/ StartsWith(n, <<"3", "6">>) \/ StartsWith(n, <<"3", "8">>))
        THEN "Diners Club"
        ELSE IF 12 <= ln /\ ln <= 19
                /\ (StartsWith(n, <<"5", "0">>) \/ StartsWith(n, <<"5", "6">>)
                    \/ StartsWith(n, <<"5", "7">>) \/ StartsWith(n, <<"5", "8">>)
                    \/ StartsWith(n, <<"6">>))
        THEN "Maestro/Other"
        ELSE "Unknown"

\* The loop of extract_credit_cards_from_text over the matches
RECURSIVE ExtractLoop(_, _, _)
ExtractLoop(matches, found, seen) ==
    IF matches = <<>> THEN found
    ELSE LET digits == digits_only(Head(matches))
         IN  IF Len(digits) < 13 \/ Len(digits) > 19
             THEN ExtractLoop(Tail(matches), found, seen)
             ELSE IF digits \in seen
             THEN ExtractLoop(Tail(matches), found, seen)
             ELSE IF luhn_check(digits)
             THEN ExtractLoop(Tail(matches),
                              Append(found, [number |-> digits,
                                             type |-> detect_card_type(digits)]),
                              seen \cup {digits})
             ELSE ExtractLoop(Tail(matches), found, seen)

extract_credit_cards_from_text(text) ==
    ExtractLoop(CC_CANDIDATE_RE_findall(text, 1), <<>>, {})

-----------------------------------------------------------------------------
(* The URL helpers, character by character                                 *)

LowerLetters ==
    <<"a", "b", "c", "d", "e", "f", "g", "h", "i", "j", "k", "l", "m",
      "n", "o", "p", "q", "r", "s", "t", "u", "v", "w", "x", "y", "z">>

UpperLetters ==
    <<"A", "B", "C", "D", "E", "F", "G", "H", "I", "J", "K", "L", "M",
      "N", "O", "P", "Q", "R", "S", "T", "U", "V", "W", "X", "Y", "Z">>

\* [a-zA-Z]
IsAlpha(ch) == \E i \in 1..26 : ch = LowerLetters[i] \/ ch = UpperLetters[i]

\* \s, and what str.strip() removes
IsSpace(ch) == ch \in {" ", "\t", "\n"}

\* str.strip()
RECURSIVE Strip(_)
Strip(u) ==
    IF u = <<>> THEN u
    ELSE IF IsSpace(Head(u)) THEN Strip(Tail(u))
    ELSE IF IsSpace(u[Len(u)]) THEN Strip(SubSeq(u, 1, Len(u) - 1))
    ELSE u

\* [a-zA-Z0-9+\-.]* from position i: the position after it
RECURSIVE SkipSchemeChars(_, _)
SkipSchemeChars(u, i) ==
    IF i <= Len(u) /\ (IsAlpha(u[i]) \/ u[i] \in AsciiDigits \/ u[i] \in {"+", "-", "."})
    THEN SkipSchemeChars(u, i + 1)
    ELSE i

\* re.match(r'^[a-zA-Z][a-zA-Z0-9+\-.]*://', u): no character of the class is
\* a colon, so the class stops where the colon has to be
MatchesScheme(u) ==
    /\ u # <<>>
    /\ IsAlpha(u[1])
    /\ LET i == SkipSchemeChars(u, 2)
       IN  i + 2 <= Len(u) /\ SubSeq(u, i, i + 2) = <<":", "/", "/">>

HttpsPrefix == <<"h", "t", "t", "p", "s", ":", "/", "/">>

\* normalize_input_url without the test for a scheme
normalize_input_url_prepends(u0) ==
    LET u == Strip(u0)
    IN  IF u = <<>> THEN <<>> ELSE HttpsPrefix \o u

normalize_input_url(u0) ==
    LET u == Strip(u0)
    IN  IF u = <<>> THEN <<>>
        ELSE IF ~MatchesScheme(u) THEN HttpsPrefix \o u
        ELSE u

\* str.lower(), character by character
LowerChar(ch) ==
    IF \E i \in 1..26 : ch = UpperLetters[i]
    THEN LowerLetters[CHOOSE i \in 1..26 : ch = UpperLetters[i]]
    ELSE ch

\* The first position from i on that holds one of the characters, or
\* Len(u) + 1
RECURSIVE Find(_, _, _)
Find(u, i, chars) ==
    IF i > Len(u) \/ u[i] \in chars THEN i ELSE Find(u, i + 1, chars)

\* The last position that holds the character, or 0
RECURSIVE RFind(_, _, _)
RFind(u, i, ch) ==
    IF i = 0 \/ u[i] = ch THEN i ELSE RFind(u, i - 1, ch)

\* urlparse(u).netloc of a normalized URL: what follows "scheme://" up to
\* the first "/", "?" or "#"
Netloc(u) ==
    IF ~MatchesScheme(u) THEN <<>>
    ELSE LET start == SkipSchemeChars(u, 2) + 3
         IN  SubSeq(u, start, Find(u, start, {"/", "?", "#"}) - 1)

\* urlparse(u).hostname or "": the netloc after its last "@", up to its
\* first ":" (or between "[" and "]"), in lower case
Hostname(u) ==
    LET netloc == Netloc(u)
        hostinfo == SubSeq(netloc, RFind(netloc, Len(netloc), "@") + 1, Len(netloc))
        open == Find(hostinfo, 1, {"["})
        host == IF open <= Len(hostinfo)
                THEN SubSeq(hostinfo, open + 1, Find(hostinfo, open + 1, {"]"}) - 1)
                ELSE SubSeq(hostinfo, 1, Find(hostinfo, 1, {":"}) - 1)
    IN  [i \in 1..Len(host) |-> LowerChar(host[i])]

\* host.split("."), each label a sequence of characters
RECURSIVE SplitDots(_)
SplitDots(host) ==
    LET dot == Find(host, 1, {"."})
    IN  IF dot > Len(host) THEN <<host>>
        ELSE <<SubSeq(host, 1, dot - 1)>> \o SplitDots(SubSeq(host, dot + 1, Len(host)))

\* ".".join(labels)
RECURSIVE JoinDots(_)
JoinDots(labels) ==
    IF labels = <<>> THEN <<>>
    ELSE IF Len(labels) = 1 THEN labels[1]
    ELSE labels[1] \o <<".">> \o JoinDots(Tail(labels))

\* re.match(r"^(\d{1,3}\.){3}\d{1,3}$", host)
IsIPv4(host) ==
    LET labels == SplitDots(host)
    IN  /\ Len(labels) = 4
        /\ \A i \in 1..4 :
              /\ Len(labels[i]) \in 1..3
              /\ \A j \in 1..Len(labels[i]) : IsReDigit(labels[i][j])

Localhost == <<"l", "o", "c", "a", "l", "h", "o", "s", "t">>

\* The public suffixes the hosts of the model end in, as label sequences
PublicSuffixes ==
    { << <<"c", "o", "m">> >>,
      << <<"u", "k">> >>,
      << <<"c", "o">>, <<"u", "k">> >> }

\* tldextract.extract(host): the longest public suffix the host ends in, the
\* label before it as the domain; with no public suffix the last label is
\* the domain and the suffix is empty
tldextract_extract(host) ==
    LET labels == SplitDots(host)
        n == Len(labels)
        starts == { i \in 1..n : SubSeq(labels, i, n) \in PublicSuffixes }
    IN  IF starts = {}
        THEN [subdomain |-> JoinDots(SubSeq(labels, 1, n - 1)),
              domain |-> labels[n], suffix |-> <<>>]
        ELSE LET i == CHOOSE k \in starts : \A j \in starts : k <= j
             IN  [subdomain |-> JoinDots(SubSeq(labels, 1, i - 2)),
                  domain |-> IF i > 1 THEN labels[i - 1] ELSE <<>>,
                  suffix |-> JoinDots(SubSeq(labels, i, n))]

\* to_apex_site that reads p.netloc for p.hostname
to_apex_site_netloc(u0) ==
    LET host == Netloc(normalize_input_url(u0))
        ext == tldextract_extract(host)
        site == IF IsIPv4(host) \/ host = Localhost THEN host
                ELSE IF ext.domain # <<>> /\ ext.suffix # <<>>
                THEN ext.domain \o <<".">> \o ext.suffix
                ELSE host
    IN  HttpsPrefix \o site

to_apex_site(u0) ==
    LET host == Hostname(normalize_input_url(u0))
        ext == tldextract_extract(host)
        site == IF IsIPv4(host) \/ host = Localhost THEN host
                ELSE IF ext.domain # <<>> /\ ext.suffix # <<>>
                THEN ext.domain \o <<".">> \o ext.suffix
                ELSE host
    IN  HttpsPrefix \o site

to_host_site(u0) ==
    LET host == Hostname(normalize_input_url(u0))
    IN  IF host = <<>> THEN <<>> ELSE HttpsPrefix \o host

\* [A-Za-z]
Letters == { LowerLetters[i] : i \in 1..26 } \cup { UpperLetters[i] : i \in 1..26 }

\* [A-Za-z0-9-]
LabelChars == Letters \cup AsciiDigits \cup {"-"}

\* A greedy run of the characters from position i: the position after it
RECURSIVE Span(_, _, _)
Span(text, i, chars) ==
    IF i <= Len(text) /\ text[i] \in chars THEN Span(text, i + 1, chars) ELSE i

\* (?:[A-Za-z0-9-]+\.)+ from position i: the positions after each repetition
\* it can make (a label ends at the first character outside its class, which
\* has to be the dot)
RECURSIVE GroupEnds(_, _)
GroupEnds(text, i) ==
    LET j == Span(text, i, LabelChars)
    IN  IF j > i /\ j <= Len(text) /\ text[j] = "."
        THEN <<j + 1>> \o GroupEnds(text, j + 1)
        ELSE <<>>

\* (?:[A-Za-z0-9-]+\.)+[A-Za-z]{2,} from position i: the labels repeat as
\* often as they can and give repetitions back until two letters follow;
\* the position after the letters, or 0 with no match
HostEnd(text, i) ==
    LET ends == GroupEnds(text, i)
        good == { k \in 1..Len(ends) : Span(text, ends[k], Letters) - ends[k] >= 2 }
    IN  IF good = {} THEN 0
        ELSE Span(text, ends[CHOOSE k \in good : \A j \in good : j <= k], Letters)

\* (?::\d{2,5})? from position i: the position after it
PortEnd(text, i) ==
    IF i <= Len(text) /\ text[i] = ":"
    THEN LET run == Span(text, i + 1, AsciiDigits \cup {"u0663"}) - (i + 1)
             n == IF run > 5 THEN 5 ELSE run
         IN  IF n >= 2 THEN i + 1 + n ELSE i
    ELSE i

\* (?:/[^\s]*)? from position i: the position after it
PathEnd(text, i) ==
    IF i <= Len(text) /\ text[i] = "/" THEN Find(text, i + 1, {" ", "\t", "\n"}) ELSE i

\* text[i:].lower().startswith(prefix)
LowerStartsWith(text, i, prefix) ==
    /\ i + Len(prefix) - 1 <= Len(text)
    /\ \A k \in 1..Len(prefix) : LowerChar(text[i + k - 1]) = prefix[k]

\* (?:(?:https?://)|(?:www\.))? from position p, with re.IGNORECASE: the
\* position after the prefix, p with none
PrefixEnd(text, p) ==
    IF LowerStartsWith(text, p, HttpsPrefix) THEN p + 8
    ELSE IF LowerStartsWith(text, p, <<"h", "t", "t", "p", ":", "/", "/">>) THEN p + 7
    ELSE IF LowerStartsWith(text, p, <<"w", "w", "w", ".">>) THEN p + 4
    ELSE p

\* URL_REGEX tried at position p: with the prefix first, without it when no
\* host follows the prefix; the position after the match, or 0 with no match
URL_REGEX_match(text, p) ==
    LET q == PrefixEnd(text, p)
        prefixed == IF q > p THEN HostEnd(text, q) ELSE 0
        h == IF prefixed > 0 THEN prefixed ELSE HostEnd(text, p)
    IN  IF h = 0 THEN 0 ELSE PathEnd(text, PortEnd(text, h))

\* URL_REGEX.findall(text) from position p: leftmost matches, each scan
\* resuming where the last match ended
RECURSIVE URL_REGEX_findall(_, _)
URL_REGEX_findall(text, p) ==
    IF p > Len(text) THEN <<>>
    ELSE LET e == URL_REGEX_match(text, p)
         IN  IF e > 0
             THEN <<SubSeq(text, p, e - 1)>> \o URL_REGEX_findall(text, e)
             ELSE URL_REGEX_findall(text, p + 1)

\* The loop of extract_urls over the matches
RECURSIVE UrlsLoop(_, _, _)
UrlsLoop(matches, urls, seen) ==
    IF matches = <<>> THEN urls
    ELSE LET s == Strip(Head(matches))
         IN  IF s # <<>> /\ s \notin seen
             THEN UrlsLoop(Tail(matches), Append(urls, s), seen \cup {s})
             ELSE UrlsLoop(Tail(matches), urls, seen)

extract_urls(text) == UrlsLoop(URL_REGEX_findall(text, 1), <<>>, {})

\* to_apex_site(u) if mode == "apex" else to_host_site(u)
SiteOf(u, mode) == IF mode = "apex" THEN to_apex_site(u) ELSE to_host_site(u)

\* The loop of clean_sites_list_from_text that keeps the last of the URLs of
\* a site: a site seen again moves to the end of the list
RECURSIVE SitesLoop_keeps_last(_, _, _)
SitesLoop_keeps_last(found, sites, seen) ==
    IF found = <<>> THEN sites
    ELSE LET site == Head(found)
         IN  IF site # <<>>
             THEN SitesLoop_keeps_last(Tail(found),
                                       Append(SelectSeq(sites, LAMBDA s : s # site), site),
                                       seen \cup {site})
             ELSE SitesLoop_keeps_last(Tail(found), sites, seen)

\* The loop of clean_sites_list_from_text, over the site found for each URL
RECURSIVE SitesLoop(_, _, _)
SitesLoop(found, sites, seen) ==
    IF found = <<>> THEN sites
    ELSE LET site == Head(found)
         IN  IF site # <<>> /\ site \notin seen
             THEN SitesLoop(Tail(found), Append(sites, site), seen \cup {site})
             ELSE SitesLoop(Tail(found), sites, seen)

clean_sites_list_from_text(text, mode) ==
    LET urls == extract_urls(text)
    IN  SitesLoop([i \in 1..Len(urls) |-> SiteOf(urls[i], mode)], <<>>, {})

-----------------------------------------------------------------------------
(* The model of card extraction: a pending bucket holds one text, a        *)
(* numeric run of 12 to 20 digits whose last digits take every value,      *)
(* plain, grouped by separators, inside other characters or with a         *)
(* non-ASCII digit; the step is the extraction clean_cmd makes of it.      *)

\* n characters repeating a pattern
Cycle(pattern, n) == [i \in 1..n |-> pattern[((i - 1) % Len(pattern)) + 1]]

\* Groups of four characters, each group followed by the separators
RECURSIVE Grouped(_, _)
Grouped(s, seps) ==
    IF Len(s) <= 4 THEN s
    ELSE SubSeq(s, 1, 4) \o seps \o Grouped(SubSeq(s, 5, Len(s)), seps)

\* The runs of digits: every length from 12 to 20, every choice of the last
\* MaxTail digits
DigitRuns ==
    { Cycle(<<"4", "9", "0", "5", "1", "7">>, total - MaxTail) \o tail :
        total \in 12..20, tail \in [1..MaxTail -> AsciiDigits] }

CardTexts ==
    DigitRuns
    \cup { Grouped(r, <<" ">>) : r \in DigitRuns }
    \cup { <<"n", "o", ":">> \o Grouped(r, <<"-", " ">>) \o <<" ", "-", "x">> : r \in DigitRuns }
    \cup { <<Head(r), "u0663">> \o Tail(r) : r \in DigitRuns }

\* The pending bucket of every chat holds the one text
InitText(texts) ==
    /\ modes = << >>
    /\ \E t \in texts : pending = [c \in Chats |-> [texts |-> <<t>>, files |-> <<>>]]
    /\ merge = << >>
    /\ cleanRun = [c \in Chats |-> IdleRun]
    /\ doneRun = [c \in Chats |-> IdleRun]
    /\ out = << >>

\* cards = extract_credit_cards_from_text(combined_text), the blob being the
\* one text
extract_cards(c) ==
    /\ out = <<>>
    /\ out' = <<[chat |-> c, kind |-> "cards",
                 what |-> extract_credit_cards_from_text(pending[c].texts[1])]>>
    /\ UNCHANGED <<modes, pending, merge, cleanRun, doneRun>>

InitCards == InitText(CardTexts)

NextCards == \E c \in Chats : extract_cards(c)

SpecCards == InitCards /\ [][NextCards]_vars

-----------------------------------------------------------------------------
(* The model of card classification: a digit string of every length up to  *)
(* 20 whose leading digits run around the bounds of every rule; the step   *)
(* is the call of detect_card_type on it.                                  *)

\* Leading digits; the MaxTail digits after them take every value
Leads ==
    { <<>>, <<"3">>, <<"4">>, <<"5">>, <<"6">>, <<"2", "2">>, <<"2", "7">>,
      <<"3", "0">>, <<"3", "5">>, <<"6", "0">>, <<"6", "4">>,
      <<"6", "2", "2", "1">>, <<"6", "2", "2", "9">> }

TypeNumbers ==
    { SubSeq(lead \o free \o Cycle(<<"0", "9">>, 20), 1, n) :
        lead \in Leads, free \in [1..MaxTail -> AsciiDigits], n \in 0..20 }

\* ctype = detect_card_type(digits)
classify(c) ==
    /\ out = <<>>
    /\ out' = <<[chat |-> c, kind |-> "type",
                 what |-> detect_card_type(pending[c].texts[1])]>>
    /\ UNCHANGED <<modes, pending, merge, cleanRun, doneRun>>

InitTypes == InitText(TypeNumbers)

NextTypes == \E c \in Chats : classify(c)

SpecTypes == InitTypes /\ [][NextTypes]_vars

-----------------------------------------------------------------------------
(* The model of URL normalization: every string of up to MaxUrlLen         *)
(* characters over an alphabet with a letter, a digit, the punctuation of  *)
(* a scheme and a blank; the step is the call of normalize_input_url.      *)

UrlAlphabet == {"a", "1", "+", ".", ":", "/", " "}

UrlStrings ==
    UNION { [1..n -> UrlAlphabet] : n \in 0..MaxUrlLen }

\* u = normalize_input_url(u)
normalize(c) ==
    /\ out = <<>>
    /\ out' = <<[chat |-> c, kind |-> "url",
                 what |-> normalize_input_url(pending[c].texts[1])]>>
    /\ UNCHANGED <<modes, pending, merge, cleanRun, doneRun>>

InitUrls == InitText(UrlStrings)

NextUrls == \E c \in Chats : normalize(c)

SpecUrls == InitUrls /\ [][NextUrls]_vars

-----------------------------------------------------------------------------
(* The model of the apex reduction: a host (a dotted quad, localhost, or a *)
(* name under a public suffix) with or without a scheme, a port and a path *)
(* around it; the step is the call of to_apex_site.                        *)

Octets == { <<"0">>, <<"1", "0">>, <<"1", "2", "7">>, <<"2", "5", "5">> }

DottedQuads ==
    { a \o <<".">> \o b \o <<".">> \o c \o <<".">> \o d :
        a \in Octets, b \in Octets, c \in Octets, d \in Octets }

NamedHosts ==
    { <<"a", ".", "c", "o", "m">>,
      <<"w", ".", "a", ".", "c", "o", ".", "u", "k">>,
      <<"1", "0", ".", "1", ".", "c", "o", "m">>,
      <<"l", "o", "c", "a", "l", "h", "o", "s", "t", ".", "c", "o", "m">> }

Wrapped(hosts) ==
    { scheme \o h \o port \o path :
        scheme \in { <<>>, <<"h", "t", "t", "p", ":", "/", "/">>, HttpsPrefix,
                     <<"F", "t", "p", ":", "/", "/">> },
        h \in hosts,
        port \in { <<>>, <<":", "8", "0">>, <<":", "8", "0", "8", "0">> },
        path \in { <<>>, <<"/">>, <<"/", "a", "/", "1", ".", "2", ".", "3", ".", "4">> } }

SiteInputs == Wrapped(DottedQuads \cup {Localhost} \cup NamedHosts)

\* site = to_apex_site(u)
apex_site(c) ==
    /\ out = <<>>
    /\ out' = <<[chat |-> c, kind |-> "site",
                 what |-> to_apex_site(pending[c].texts[1])]>>
    /\ UNCHANGED <<modes, pending, merge, cleanRun, doneRun>>

InitApex == InitText(SiteInputs)

NextApex == \E c \in Chats : apex_site(c)

SpecApex == InitApex /\ [][NextApex]_vars

-----------------------------------------------------------------------------
(* The model of the two lists: a blob of up to MaxItems lines, each line a  *)
(* URL and a numeric run, so that a site and a card come back under other   *)
(* spellings later in the scan; the mode is apex (nothing stored) or host;  *)
(* the step is the two calls clean_cmd makes on the blob.                   *)

MaxItems == 3

SiteA == <<"a", ".", "c", "o", "m">>
SiteB == <<"b", ".", "c", "o", ".", "u", "k">>

\* Two numbers that pass luhn_check, one that fails
CardV == <<"4">> \o Cycle(<<"1">>, 15)
CardM == <<"5", "5">> \o Cycle(<<"0">>, 13) \o <<"4">>
CardX == <<"4">> \o Cycle(<<"1">>, 14) \o <<"2">>

ListLines ==
    { SiteA \o <<" ">> \o CardV,
      <<"h", "t", "t", "p", ":", "/", "/", "A">> \o Tail(SiteA) \o <<"/", "x", " ">>
          \o Grouped(CardV, <<"-">>),
      <<"w", ".">> \o SiteA \o <<":", "8", "0", "/", " ">> \o CardM,
      SiteB \o <<" ">> \o CardX,
      <<"s", "e", "e", " ", "W", "W", "W", ".">> \o SiteB \o <<",", " ">>
          \o Grouped(CardM, <<" ">>) \o <<".">>,
      <<"x">> }

\* "\n".join(lines)
RECURSIVE JoinLines(_)
JoinLines(lines) ==
    IF lines = <<>> THEN <<>>
    ELSE IF Len(lines) = 1 THEN lines[1]
    ELSE lines[1] \o <<"\n">> \o JoinLines(Tail(lines))

ListTexts ==
    { JoinLines(lines) : lines \in UNION { [1..n -> ListLines] : n \in 0..MaxItems } }

\* sites = clean_sites_list_from_text(combined_text, mode) and
\* cards = extract_credit_cards_from_text(combined_text), the blob being the
\* one text
clean_lists(c) ==
    /\ out = <<>>
    /\ out' = <<[chat |-> c, kind |-> "lists",
                 what |-> [sites |-> clean_sites_list_from_text(pending[c].texts[1],
                                                                get_mode(c)),
                           cards |-> extract_credit_cards_from_text(pending[c].texts[1])]]>>
    /\ UNCHANGED <<modes, pending, merge, cleanRun, doneRun>>

InitLists ==
    /\ modes \in { << >>, [c \in Chats |-> "host"] }
    /\ \E t \in ListTexts : pending = [c \in Chats |-> [texts |-> <<t>>, files |-> <<>>]]
    /\ merge = << >>
    /\ cleanRun = [c \in Chats |-> IdleRun]
    /\ doneRun = [c \in Chats |-> IdleRun]
    /\ out = << >>

NextLists == \E c \in Chats : clean_lists(c)

SpecLists == InitLists /\ [][NextLists]_vars

-----------------------------------------------------------------------------
(* The model of the site reduction of a list of URLs: up to MaxUrls URLs,   *)
(* some with a host and some in which urlparse finds none, under the apex   *)
(* and the host mode; the step is the loop of clean_sites_list_from_text    *)
(* over them.                                                               *)

MaxUrls == 2

HttpPrefix == <<"h", "t", "t", "p", ":", "/", "/">>

\* URLs in which urlparse finds no hostname
HostlessUrls ==
    { HttpPrefix,
      HttpsPrefix \o <<"/", "x">>,
      HttpPrefix \o <<":", "8", "0">>,
      <<"H", "T", "T", "P", ":", "/", "/", "?", "q">> }

HostedUrls ==
    { SiteA,
      HttpPrefix \o <<"w", ".">> \o SiteA \o <<"/", "x">>,
      SiteB \o <<":", "8", "0">>,
      Localhost }

UrlLists == UNION { [1..n -> HostlessUrls \cup HostedUrls] : n \in 1..MaxUrls }

\* The for loop of clean_sites_list_from_text, the URLs being the texts held
reduce_sites(c) ==
    /\ out = <<>>
    /\ out' = <<[chat |-> c, kind |-> "sites",
                 what |-> SitesLoop([i \in 1..Len(pending[c].texts) |->
                                        SiteOf(pending[c].texts[i], get_mode(c))],
                                    <<>>, {})]>>
    /\ UNCHANGED <<modes, pending, merge, cleanRun, doneRun>>

InitSites ==
    /\ modes \in { << >>, [c \in Chats |-> "host"] }
    /\ \E urls \in UrlLists : pending = [c \in Chats |-> [texts |-> urls, files |-> <<>>]]
    /\ merge = << >>
    /\ cleanRun = [c \in Chats |-> IdleRun]
    /\ doneRun = [c \in Chats |-> IdleRun]
    /\ out = << >>

NextSites == \E c \in Chats : reduce_sites(c)

SpecSites == InitSites /\ [][NextSites]_vars

-----------------------------------------------------------------------------
(* The model of the blob of a /clean run: one chat that stores up to       *)
(* MaxParts texts and MaxParts documents of different contents, also while *)
(* a run awaits; every fetch of the run returns bytes or fails.            *)

MaxParts == 2

BlobTexts == {"x", "4111 1111 1111 1111"}

BlobDocs ==
    { Doc("f1", "a", ".txt", "text/plain", 1),
      Doc("f3", "b", ".txt", "text/plain", 1) }

InitBlob == InitFor(Chats)

NextBlob ==
    \E c \in Chats :
        \/ \E t \in BlobTexts : handle_text(c, t) /\ Within(MaxParts, MaxParts)
        \/ \E d \in BlobDocs : handle_document(c, d) /\ Within(MaxParts, MaxParts)
        \/ clear_pending_cmd(c)
        \/ clean_cmd(c)
        \/ \E ok \in BOOLEAN : clean_fetch(c, ok)
        \/ clean_send(c)
        \/ clean_end(c)

SpecBlob == InitBlob /\ [][NextBlob]_vars

-----------------------------------------------------------------------------
(* Properties                                                              *)

\* What a session is, as its handlers read it: an absent key reads as the
\* default mode, the empty pending bucket, no merge session
SessionState(c) ==
    [mode |-> get_mode(c),
     texts |-> PendingTexts(c),
     files |-> PendingFiles(c),
     merging |-> c \in DOMAIN merge,
     merge_entry |-> IF c \in DOMAIN merge THEN merge[c] ELSE EmptyMerge]

\* C1: a /clean issued while the session has no pending text and no pending
\* file leaves its mode, pending bucket and merge bucket as they were; all it
\* does is reply "No pending items to clean." once: no fetch, no artifact, no
\* run started.
C1_CleanOnEmptyIsNoop ==
    [][\A c \in Sessions :
          (clean_cmd(c) /\ PendingTexts(c) = <<>> /\ PendingFiles(c) = <<>>)
          => /\ SessionState(c)' = SessionState(c)
             /\ out' = Reply(c, "No pending items to clean.")
             /\ cleanRun' = cleanRun
             /\ doneRun' = doneRun]_vars

\* C1 witness: the reply was just sent to a session in host mode with an open
\* merge session holding a file, all of which it left alone
C1_Witness ==
    /\ out = Reply(1, "No pending items to clean.")
    /\ get_mode(1) = "host"
    /\ 1 \in DOMAIN merge /\ Len(merge[1].files) = 1

\* /done fails its precondition: a merge session with no file, or with more
\* bytes than the merge cap
DonePreconditionFails(c) ==
    /\ c \in DOMAIN merge
    /\ \/ merge[c].files = <<>>
       \/ SumSizes(merge[c].files) > MAX_TOTAL_MERGE_BYTES

\* C2 as stated: a /done that fails its precondition leaves the session
\* untouched, still merging.
C2_DoneFailureLeavesState ==
    [][\A c \in Sessions :
          (done_cmd(c) /\ DonePreconditionFails(c))
          => SessionState(c)' = SessionState(c)]_vars

\* C2 amended: a /done that fails its precondition cancels the merge session
\* (the session is no longer merging and its merge bucket is gone) and leaves
\* the mode and the pending bucket unchanged; it starts no run.
C2_DoneFailureCancelsMerge ==
    [][\A c \in Sessions :
          (done_cmd(c) /\ DonePreconditionFails(c))
          => /\ c \notin DOMAIN merge'
             /\ get_mode(c)' = get_mode(c)
             /\ PendingTexts(c)' = PendingTexts(c)
             /\ PendingFiles(c)' = PendingFiles(c)
             /\ doneRun'[c].pc = doneRun[c].pc
             /\ out' \in { Reply(c, "No files were uploaded. Merge cancelled."),
                           Reply(c, "Total uploaded files exceed allowed size. Merge cancelled.") }]_vars

\* C2 witness: /done was just refused on an empty merge session while a text
\* was pending; the merge session is gone and the text is still there
C2_Witness ==
    /\ out = Reply(1, "No files were uploaded. Merge cancelled.")
    /\ 1 \notin DOMAIN merge
    /\ PendingTexts(1) # <<>>

\* A run of the handler takes its last step
CleanCompletes(c) == cleanRun[c].pc # "idle" /\ cleanRun'[c].pc = "idle"
DoneCompletes(c) == doneRun[c].pc # "idle" /\ doneRun'[c].pc = "idle"

\* C3: when a /clean that passed its precondition completes, the pending
\* bucket is empty; when a /done that passed its precondition completes, the
\* merge session is removed; whatever the run found or failed to fetch.
C3_CompletionClearsBucket ==
    [][\A c \in Sessions :
          /\ CleanCompletes(c) => PendingTexts(c)' = <<>> /\ PendingFiles(c)' = <<>>
          /\ DoneCompletes(c) => c \notin DOMAIN merge']_vars

\* C3 witness: a /clean run has just returned; its pending bucket is gone
\* and the merge session opened meanwhile is still there
C3_Witness ==
    /\ out = Returned(1, "clean_cmd")
    /\ 1 \notin DOMAIN pending
    /\ 1 \in DOMAIN merge

\* C4 as stated: the bytes of a pending bucket, texts and declared file
\* sizes together, never exceed the pending cap.
C4_PendingWithinCap ==
    \A c \in DOMAIN pending :
        SumTextBytes(pending[c].texts) + SumSizes(pending[c].files)
            <= MAX_PENDING_TOTAL_BYTES

\* C5: every merge bucket holds at most 30 files, their declared sizes sum to
\* at most 25 MiB and to the recorded total_bytes, and every file stored in a
\* merge or pending bucket declares at most 10 MiB.
C5_BucketsWithinCaps ==
    /\ \A c \in DOMAIN merge :
          /\ Len(merge[c].files) <= MAX_MERGE_FILES
          /\ SumSizes(merge[c].files) <= MAX_TOTAL_MERGE_BYTES
          /\ SumSizes(merge[c].files) = merge[c].total_bytes
          /\ \A i \in 1..Len(merge[c].files) :
                merge[c].files[i].file_size <= MAX_SINGLE_FILE_BYTES
    /\ \A c \in DOMAIN pending :
          \A i \in 1..Len(pending[c].files) :
              pending[c].files[i].file_size <= MAX_SINGLE_FILE_BYTES

\* C5 witness: a merge bucket at the count cap, 30 files, two of them of
\* 10 MiB, beside a non-empty pending bucket
C5_Witness ==
    /\ 1 \in DOMAIN merge
    /\ Len(merge[1].files) = MAX_MERGE_FILES
    /\ merge[1].total_bytes = 2 * MAX_SINGLE_FILE_BYTES
    /\ PendingFiles(1) # <<>>

\* Every document the models offer
AllDocs == Docs \cup MergeDocs \cup PendingDocs

\* The replies with which handle_document refuses a document
DocRejections ==
    { "Unsupported file type for merging.", "File too large. Skipping this file.",
      "Reached maximum number of merge files.",
      "Adding this file would exceed total merge size limit.",
      "Unsupported file type.", "File too large.",
      "Adding this file would exceed pending storage limit." }

\* The reasons C6 lists, read off the event and the buckets
RejectionReason(c, d) ==
    \/ ~(d.mime_type \in {"text/plain", "TEXT/PLAIN"} \/ d.file_name.ext \in {".txt", ".TXT"})
    \/ d.file_size > MAX_SINGLE_FILE_BYTES
    \/ c \in DOMAIN merge /\ Len(merge[c].files) >= MAX_MERGE_FILES
    \/ c \in DOMAIN merge /\ SumSizes(merge[c].files) + d.file_size > MAX_TOTAL_MERGE_BYTES
    \/ c \notin DOMAIN merge /\ SumSizes(PendingFiles(c)) + d.file_size > MAX_PENDING_TOTAL_BYTES

\* C6: a document that is refused, for any of the listed reasons, leaves the
\* pending bucket, the merge bucket and the mode of the session unchanged (and
\* each listed reason does refuse it).
C6_RejectedDocumentIsNoop ==
    [][\A c \in Sessions : \A d \in AllDocs :
          (handle_document(c, d)
             /\ (RejectionReason(c, d) \/ handle_document_reply(c, d) \in DocRejections))
          => /\ handle_document_reply(c, d) \in DocRejections
             /\ SessionState(c)' = SessionState(c)]_vars

\* C6 witness: both buckets are full, the merge bucket by count and the
\* pending bucket by bytes, so that a further document is refused in either
\* mode
C6_Witness ==
    /\ 1 \in DOMAIN merge
    /\ Len(merge[1].files) = MAX_MERGE_FILES
    /\ SumSizes(PendingFiles(1)) = MAX_PENDING_TOTAL_BYTES
    /\ handle_document_reply(1, Doc("f1", "a", ".txt", "text/plain", 0))
          = "Reached maximum number of merge files."

\* The reference handle_document stores for a document
FileRef(d) ==
    [file_id |-> d.file_id, file_name |-> StoredName(d), file_size |-> d.file_size]

\* C7: while a session is merging a text is refused and changes nothing, and
\* a document that is accepted is appended to the merge bucket, never to the
\* pending bucket; while it is not merging an accepted document is appended to
\* the pending bucket and no merge bucket is created or changed.
C7_MergingRoutesDocuments ==
    [][\A c \in Sessions :
          /\ \A t \in Texts \cup CapTexts :
                (handle_text(c, t) /\ c \in DOMAIN merge)
                => SessionState(c)' = SessionState(c)
          /\ \A d \in AllDocs :
                (handle_document(c, d) /\ SessionState(c)' # SessionState(c))
                => IF c \in DOMAIN merge
                   THEN /\ c \in DOMAIN merge'
                        /\ merge'[c].files =
                              Append(merge[c].files,
                                     [file_id |-> d.file_id, file_size |-> d.file_size,
                                      file_name |-> StoredName(d)])
                        /\ PendingTexts(c)' = PendingTexts(c)
                        /\ PendingFiles(c)' = PendingFiles(c)
                   ELSE /\ PendingFiles(c)' = Append(PendingFiles(c), FileRef(d))
                        /\ PendingTexts(c)' = PendingTexts(c)
                        /\ merge' = merge]_vars

\* C7 witness: a merge session holds a document while the pending bucket,
\* filled before /merge, still holds its text and its file
C7_Witness ==
    /\ 1 \in DOMAIN merge
    /\ Len(merge[1].files) = 1
    /\ Len(PendingTexts(1)) = 1
    /\ Len(PendingFiles(1)) = 1

\* C8: a set-mode with a value that is not apex or host (the /mode argument
\* as mode_cmd reads it, lower-cased) is refused and leaves the stored modes
\* as they were; so the mode of every session is always apex or host, and apex
\* while none was stored.
C8_ModeIsApexOrHost ==
    /\ [](\A c \in Sessions :
             /\ get_mode(c) \in {"apex", "host"}
             /\ c \notin DOMAIN modes => get_mode(c) = "apex")
    /\ [][\A c \in Sessions :
             /\ \A a \in ModeArgs :
                   (mode_cmd(c, a) /\ Lower(a) \notin {"apex", "host"})
                   => modes' = modes
             /\ \A d \in CallbackData :
                   (settings_cb(c, d) /\ d.rest \notin {"apex", "host"})
                   => modes' = modes]_vars

\* C8 witness: host is stored, which a refused /mode or callback leaves
C8_Witness ==
    /\ 1 \in DOMAIN modes
    /\ modes[1] = "host"
    /\ mode_cmd_reply(1, "fast") = "Usage: /mode apex or /mode host"
    /\ settings_cb_reply(1, [head |-> "mode:", rest |-> "fast"]) = ""

\* A mode was set: /mode or the callback with apex or host
ModeWasSet(c) ==
    \/ \E a \in ModeArgs :
          mode_cmd(c, a) /\ mode_cmd_reply(c, a) = "Mode set"
    \/ \E d \in CallbackData :
          settings_cb(c, d) /\ settings_cb_reply(c, d) = "Mode set"

\* C9: the stored modes change only in a step that sets a mode; every step
\* that touches a bucket or moves a /clean or /done run leaves them as they
\* were.
C9_OnlySetModeChangesMode ==
    [][/\ modes' # modes => \E c \in Sessions : ModeWasSet(c)
       /\ (pending' # pending \/ merge' # merge
              \/ cleanRun' # cleanRun \/ doneRun' # doneRun)
          => modes' = modes]_vars

\* C9 witness: a /clean run has just returned in a session set to host
C9_Witness ==
    /\ out = Returned(1, "clean_cmd")
    /\ 1 \in DOMAIN modes
    /\ modes[1] = "host"

\* A step of the clean_cmd or done_cmd run in flight
RunStep(c) ==
    \/ \E ok \in BOOLEAN : clean_fetch(c, ok)
    \/ clean_send(c)
    \/ clean_end(c)
    \/ \E ok \in BOOLEAN : done_fetch(c, ok)
    \/ done_send(c)
    \/ done_end(c)

\* C10 as stated: one event of a session is handled at a time, so while a
\* /clean or /done run of a session is in flight its state is changed only by
\* a step of that run.
C10_OneEventAtATime ==
    [][\A c \in Sessions :
          ((cleanRun[c].pc # "idle" \/ doneRun[c].pc # "idle")
              /\ SessionState(c)' # SessionState(c))
          => RunStep(c)]_vars

\* The entry a dict holds under a key, or none
Entry(d, k) == IF k \in DOMAIN d THEN <<d[k]>> ELSE << >>

\* Everything the store and the runs hold for a chat
Stored(c) ==
    <<Entry(modes, c), Entry(pending, c), Entry(merge, c), cleanRun[c], doneRun[c]>>

\* A step of a handler of the chat: an event handled, or a run moved on
HandlerStep(c) ==
    \/ \E a \in IsoArgs : mode_cmd(c, a)
    \/ clear_pending_cmd(c)
    \/ merge_cmd(c)
    \/ merge_cancel_cmd(c)
    \/ \E t \in Texts : handle_text(c, t)
    \/ \E d \in IsoDocs : handle_document(c, d)
    \/ clean_cmd(c)
    \/ done_cmd(c)
    \/ RunStep(c)

\* C11: whatever is handled for one session (a text, a file, a mode, /merge,
\* /merge_cancel, /done, /clean, /clear_pending, or a further step of its
\* /clean or /done run) leaves the mode, the pending bucket and the merge
\* bucket of every other session as they were, under every interleaving of
\* the handlers of different sessions; no step changes two sessions.
C11_SessionsAreIsolated ==
    [][\A a \in Sessions : \A b \in Sessions \ {a} :
          /\ HandlerStep(a) => Stored(b)' = Stored(b)
          /\ Stored(a)' # Stored(a) => Stored(b)' = Stored(b)]_vars

\* C11 witness: the /clean run of chat 1 has just returned and cleared its
\* bucket while chat 2, in host mode, holds a pending text and file, an open
\* merge session with a file and a /done run in flight
C11_Witness ==
    /\ out = Returned(1, "clean_cmd")
    /\ 1 \notin DOMAIN pending
    /\ 2 \in DOMAIN modes /\ modes[2] = "host"
    /\ 2 \in DOMAIN pending
    /\ Len(pending[2].texts) = 1 /\ Len(pending[2].files) = 1
    /\ 2 \in DOMAIN merge /\ Len(merge[2].files) = 1
    /\ doneRun[2].pc = "fetch"

\* The last fetch of a run fails and no earlier one had succeeded: the run
\* had at least one file reference and could read none
CleanReadsNothing(c) ==
    /\ clean_fetch(c, FALSE)
    /\ cleanRun[c].parts = <<>>
    /\ cleanRun[c].idx + 1 = Len(CleanFiles(c))

DoneReadsNothing(c) ==
    /\ done_fetch(c, FALSE)
    /\ doneRun[c].parts = <<>>
    /\ doneRun[c].idx + 1 = Len(DoneFiles(c))

\* The replies that tell the user the files could not be processed, and the
\* replies that tell them nothing was found
CouldntProcess == { "Couldn't download any files. Merge cancelled." }

NothingFound ==
    { "No valid URLs or credit card numbers found in your pending items.",
      "No site URLs or credit cards found in merged files." }

\* C12 as stated: a /clean or /done run that has at least one file reference
\* and can fetch none of its files answers next with a "couldn't process"
\* message, which is not a "nothing found" message and not an artifact.
C12_UnreadableFilesAreReported ==
    [][\A c \in Sessions :
          (CleanReadsNothing(c) \/ DoneReadsNothing(c))
          => /\ out' \in { Reply(c, m) : m \in CouldntProcess }
             /\ out'[1].what \notin NothingFound]_vars

\* What goes to the user, without the addressee and the lines
Shown(a) == [kind |-> a.kind, what |-> a.what]

\* The sends a run has planned when it has its blob: the one it issues in
\* that step and those it still owes
Plan(o, todo) == <<Shown(o[1])>> \o [i \in 1..Len(todo) |-> Shown(todo[i])]

SitesArtifact == [kind |-> "document", what |-> "sites"]
CardsArtifact == [kind |-> "document", what |-> "cards"]

\* The outcomes C13 allows for a blob with these two lists
OutcomeFor(plan, sites, cards) ==
    /\ \/ plan \in { <<SitesArtifact>>, <<CardsArtifact>>, <<SitesArtifact, CardsArtifact>> }
       \/ \E m \in NothingFound : plan = <<[kind |-> "reply", what |-> m]>>
    /\ (\E i \in 1..Len(plan) : plan[i] = SitesArtifact) <=> sites # <<>>
    /\ (\E i \in 1..Len(plan) : plan[i] = CardsArtifact) <=> cards # <<>>
    /\ (\E i \in 1..Len(plan) : plan[i].kind = "reply") <=> (sites = <<>> /\ cards = <<>>)

\* A run, once it has its blob, sends what it planned, in that order, and
\* returns when nothing is left
FollowsPlan(run, run2, o2, handler) ==
    (run.pc = "send" /\ run2 # run)
    => IF run.todo # <<>>
       THEN /\ run2.pc = "send"
            /\ Plan(o2, run2.todo) = [i \in 1..Len(run.todo) |-> Shown(run.todo[i])]
       ELSE /\ run2.pc = "idle"
            /\ o2[1].kind = "return" /\ o2[1].what = handler

\* C13: a run that passed its precondition and has its blob sends either the
\* URL list and/or the card list (the URL list iff the run's site list is not
\* empty, the card list iff its card list is not empty, the URL list first),
\* or, iff both lists are empty, the one "nothing found" reply; it sends
\* nothing else before it returns.
C13_RunOutcome ==
    [][\A c \in Sessions :
          /\ (cleanRun[c].pc # "send" /\ cleanRun'[c].pc = "send")
             => /\ OutcomeFor(Plan(out', cleanRun'[c].todo),
                              SitesOfBlob(cleanRun'[c].parts, cleanRun'[c].mode),
                              CardsOfBlob(cleanRun'[c].parts))
                /\ out'[1].chat = c
          /\ (doneRun[c].pc # "send" /\ doneRun'[c].pc = "send")
             => /\ OutcomeFor(Plan(out', doneRun'[c].todo),
                              SitesOfBlob(doneRun'[c].parts, doneRun'[c].mode),
                              CardsOfBlob(doneRun'[c].parts))
                /\ out'[1].chat = c
          /\ FollowsPlan(cleanRun[c], cleanRun'[c], out', "clean_cmd")
          /\ FollowsPlan(doneRun[c], doneRun'[c], out', "done_cmd")]_vars

\* C13 witness: a /done run whose blob holds a site and a card has sent the
\* URL list and has just sent the card list, the last it owed
C13_Witness ==
    /\ out = Document(1, "cards")
    /\ doneRun[1].pc = "send" /\ doneRun[1].todo = <<>>
    /\ SitesOfBlob(doneRun[1].parts, doneRun[1].mode) # <<>>
    /\ CardsOfBlob(doneRun[1].parts) # <<>>

\* A failed fetch is skipped: the loop goes on to the next file, or past the
\* loop to the reply, with nothing added for the file
CleanSkips(c) ==
    (clean_fetch(c, FALSE) /\ cleanRun[c].pc = "fetch")
    => /\ cleanRun'[c].pc \in {"fetch", "send"}
       /\ cleanRun'[c].pc = "fetch"
             => /\ cleanRun'[c].idx = cleanRun[c].idx + 1
                /\ cleanRun'[c].parts = cleanRun[c].parts
       /\ cleanRun'[c].pc = "send"
             => cleanRun'[c].parts = cleanRun[c].parts \o CleanTexts(c)
       /\ out' # <<>>

DoneSkips(c) ==
    (done_fetch(c, FALSE) /\ doneRun[c].pc = "fetch")
    => /\ doneRun'[c].pc \in {"fetch", "send", "idle"}
       /\ doneRun'[c].pc = "fetch"
             => /\ doneRun'[c].idx = doneRun[c].idx + 1
                /\ doneRun'[c].parts = doneRun[c].parts
       /\ doneRun'[c].pc = "send" => doneRun'[c].parts = doneRun[c].parts
       /\ doneRun'[c].pc = "idle" => doneRun[c].parts = <<>>
       /\ out' # <<>>

TextOf(c) == pending[c].texts[1]
CardsFound == out[1].what
Extracted == out # <<>> /\ out[1].kind = "cards"

IsDigitString(s) == \A i \in 1..Len(s) : s[i] \in AsciiDigits

\* The Luhn sum as C15 words it: the digits counted from the right, every
\* second one doubled, starting with the second, 9 subtracted from a double
\* above 9, all added
RECURSIVE LuhnSum(_, _)
LuhnSum(n, j) ==
    IF j > Len(n) THEN 0
    ELSE LET d == DigitValue[n[Len(n) + 1 - j]]
             v == IF j % 2 = 0 THEN (IF 2 * d > 9 THEN 2 * d - 9 ELSE 2 * d) ELSE d
         IN  v + LuhnSum(n, j + 1)

\* C15: every number the extractor emits is a string of 13 to 19 digits
\* whose Luhn sum is divisible by 10; and the extractor applied to a string of
\* 13 to 19 digits whose Luhn sum is divisible by 10 emits that string.
C15_LuhnBothWays ==
    \A c \in Chats :
        Extracted
        => /\ \A i \in 1..Len(CardsFound) :
                 /\ IsDigitString(CardsFound[i].number)
                 /\ Len(CardsFound[i].number) \in 13..19
                 /\ LuhnSum(CardsFound[i].number, 1) % 10 = 0
           /\ (IsDigitString(TextOf(c)) /\ Len(TextOf(c)) \in 13..19
                  /\ LuhnSum(TextOf(c), 1) % 10 = 0)
              => \E i \in 1..Len(CardsFound) : CardsFound[i].number = TextOf(c)

\* C15 witness: the extraction of a string of 19 digits with a Luhn sum
\* divisible by 10 has emitted it
C15_Witness ==
    /\ Extracted
    /\ IsDigitString(TextOf(1)) /\ Len(TextOf(1)) = 19
    /\ LuhnSum(TextOf(1), 1) % 10 = 0
    /\ Len(CardsFound) = 1 /\ CardsFound[1].number = TextOf(1)

\* The positions of the digits of a text
DigitPositions(text) == { i \in 1..Len(text) : IsReDigit(text[i]) }

\* The text holds one numeric run: between its first and its last digit
\* there are only digits, spaces and hyphens
IsOneRun(text) ==
    /\ DigitPositions(text) # {}
    /\ \A i \in 1..Len(text) :
          (\E a, b \in DigitPositions(text) : a <= i /\ i <= b)
          => (IsReDigit(text[i]) \/ text[i] \in {" ", "-"})

\* C16 as stated: from a text whose one numeric run has exactly 12 or exactly
\* 20 digits, with or without separators between them, no card is emitted.
C16_NoCardFromRunOf12Or20 ==
    \A c \in Chats :
        (Extracted /\ IsOneRun(TextOf(c))
            /\ Cardinality(DigitPositions(TextOf(c))) \in {12, 20})
        => CardsFound = <<>>

\* The labels and the rule table of C18, in its order; a rule reads the
\* length of the string and the number its first k digits spell
Labels ==
    <<"Visa", "American Express", "MasterCard", "Discover", "JCB",
      "Diners Club", "Maestro/Other">>

First(n, k) == IF Len(n) >= k THEN IntOf(SubSeq(n, 1, k)) ELSE -1

RuleHolds(k, n) ==
    CASE k = 1 -> Len(n) \in {13, 16, 19} /\ First(n, 1) = 4
      [] k = 2 -> Len(n) = 15 /\ First(n, 2) \in {34, 37}
      [] k = 3 -> Len(n) = 16 /\ (First(n, 2) \in 51..55 \/ First(n, 4) \in 2221..2720)
      [] k = 4 -> Len(n) \in {16, 19}
                  /\ (First(n, 4) = 6011 \/ First(n, 2) = 65 \/ First(n, 3) \in 644..649
                      \/ First(n, 6) \in 622126..622925)
      [] k = 5 -> Len(n) \in 16..19 /\ First(n, 3) \in 3528..3589
      [] k = 6 -> Len(n) = 14 /\ (First(n, 3) \in 300..305 \/ First(n, 2) \in {36, 38})
      [] k = 7 -> Len(n) \in 12..19 /\ (First(n, 2) \in {50, 56, 57, 58} \/ First(n, 1) = 6)

FirstRule(n) ==
    IF \E k \in 1..7 : RuleHolds(k, n)
    THEN Labels[CHOOSE k \in 1..7 :
                   RuleHolds(k, n) /\ \A j \in 1..(k - 1) : ~RuleHolds(j, n)]
    ELSE "Unknown"

Classified == out # <<>> /\ out[1].kind = "type"

\* C18: for every digit string detect_card_type returns one of the eight
\* labels, the same on every call: the label of the first rule of the table
\* that the string satisfies, and Unknown when it satisfies none.
C18_FirstRuleWins ==
    \A c \in Chats :
        Classified
        => /\ out[1].what \in { Labels[k] : k \in 1..7 } \cup {"Unknown"}
           /\ out[1].what = detect_card_type(TextOf(c))
           /\ out[1].what = FirstRule(TextOf(c))

\* C18 witness: a 16-digit string that begins 6011 satisfies the Discover
\* rule and the Maestro/Other rule after it, and is labelled Discover
C18_Witness ==
    /\ Classified
    /\ Len(TextOf(1)) = 16 /\ First(TextOf(1), 4) = 6011
    /\ RuleHolds(4, TextOf(1)) /\ RuleHolds(7, TextOf(1))
    /\ out[1].what = "Discover"

\* A string starts with a scheme: a letter, then letters, digits, "+", "-"
\* or ".", then "://"
HasSchemePrefix(u) ==
    \E k \in 1..Len(u) :
        /\ IsAlpha(u[1])
        /\ \A j \in 2..k :
              IsAlpha(u[j]) \/ u[j] \in AsciiDigits \/ u[j] \in {"+", "-", "."}
        /\ k + 3 <= Len(u)
        /\ u[k + 1] = ":" /\ u[k + 2] = "/" /\ u[k + 3] = "/"

Normalized == out # <<>> /\ out[1].kind = "url"

\* C20: normalizing the result of a normalization returns it unchanged; a
\* string that starts with a scheme once trimmed is returned trimmed and
\* otherwise unchanged, and no result carries "https://" twice in front of
\* the trimmed input.
C20_NormalizeIsIdempotent ==
    \A c \in Chats :
        Normalized
        => /\ normalize_input_url(out[1].what) = out[1].what
           /\ HasSchemePrefix(Strip(TextOf(c))) => out[1].what = Strip(TextOf(c))
           /\ out[1].what \in { <<>>, Strip(TextOf(c)), HttpsPrefix \o Strip(TextOf(c)) }
           /\ normalize_input_url(out[1].what) # HttpsPrefix \o HttpsPrefix \o Strip(TextOf(c))

\* C20 witness: a string without a scheme, with a blank around it, was given
\* "https://" once, and the result is its own normalization
C20_Witness ==
    /\ Normalized
    /\ TextOf(1) = <<" ", "a", ".", "a", " ">>
    /\ out[1].what = HttpsPrefix \o <<"a", ".", "a">>
    /\ normalize_input_url(out[1].what) = out[1].what

\* The host an input is written around: what follows the scheme, if there is
\* one, up to the port or the path
HostWritten(u) ==
    LET start == IF HasSchemePrefix(u) THEN Find(u, 1, {":"}) + 3 ELSE 1
    IN  SubSeq(u, start, Find(u, start, {":", "/"}) - 1)

Reduced == out # <<>> /\ out[1].kind = "site"

\* C19: for a host that is a dotted quad or the literal localhost, with or
\* without a scheme, a port or a path around it, to_apex_site returns
\* "https://" followed by the host, unreduced.
C19_ApexKeepsIpAndLocalhost ==
    \A c \in Chats :
        (Reduced /\ (HostWritten(TextOf(c)) \in DottedQuads
                        \/ HostWritten(TextOf(c)) = Localhost))
        => out[1].what = HttpsPrefix \o HostWritten(TextOf(c))

\* C19 witness: the dotted quad 10.0.127.255 written with a scheme, a port
\* and a path was returned as https://10.0.127.255
C19_Witness ==
    /\ Reduced
    /\ HasSchemePrefix(TextOf(1))
    /\ HostWritten(TextOf(1)) = <<"1", "0", ".", "0", ".", "1", "2", "7", ".", "2", "5", "5">>
    /\ Len(TextOf(1)) > 7 + 12 + 5
    /\ out[1].what = HttpsPrefix \o HostWritten(TextOf(1))

-----------------------------------------------------------------------------
Listed == out # <<>> /\ out[1].kind = "lists"

NoDuplicates(list) == \A i, j \in 1..Len(list) : list[i] = list[j] => i = j

\* The index of the first of the keys that equals x, 0 with none
FirstIn(keys, x) ==
    IF \E i \in 1..Len(keys) : keys[i] = x
    THEN CHOOSE i \in 1..Len(keys) : keys[i] = x /\ \A j \in 1..(i - 1) : keys[j] # x
    ELSE 0

\* Every entry is the key of a candidate, and the entries stand in the order
\* in which their first candidates stand in the scan
InScanOrder(list, keys) ==
    /\ \A i \in 1..Len(list) : FirstIn(keys, list[i]) > 0
    /\ \A i, j \in 1..Len(list) :
          i < j => FirstIn(keys, list[i]) < FirstIn(keys, list[j])

\* The site of every match of URL_REGEX in the text, in the order of the scan
SiteKeys(text, mode) ==
    LET matches == URL_REGEX_findall(text, 1)
    IN  [i \in 1..Len(matches) |-> SiteOf(Strip(matches[i]), mode)]

\* The digits of every match of CC_CANDIDATE_RE in the text, in the order of
\* the scan
CardKeys(text) ==
    LET matches == CC_CANDIDATE_RE_findall(text, 1)
    IN  [i \in 1..Len(matches) |-> digits_only(matches[i])]

CardNumbers(cards) == [i \in 1..Len(cards) |-> cards[i].number]

\* C17: for every text and both modes, the site list and the card list hold
\* no entry twice, and their entries stand in the order in which the
\* candidates they come from first occur in the left-to-right scan of the
\* text.
C17_ListsAreDedupedInScanOrder ==
    Listed =>
        LET text == pending[out[1].chat].texts[1]
            sites == out[1].what.sites
            numbers == CardNumbers(out[1].what.cards)
        IN  /\ NoDuplicates(sites)
            /\ NoDuplicates(numbers)
            /\ InScanOrder(sites, SiteKeys(text, get_mode(out[1].chat)))
            /\ InScanOrder(numbers, CardKeys(text))

\* Both lists hold two entries, and a site and a card of the lists occur
\* again later in the scan (under the host mode, where the sites of a.com
\* and w.a.com differ).
C17_Witness ==
    /\ Listed
    /\ get_mode(out[1].chat) = "host"
    /\ LET text == pending[out[1].chat].texts[1]
           sites == out[1].what.sites
           numbers == CardNumbers(out[1].what.cards)
           siteKeys == SiteKeys(text, "host")
           cardKeys == CardKeys(text)
       IN  /\ Len(sites) >= 2
           /\ Len(numbers) >= 2
           /\ \E i, j \in 1..Len(siteKeys) :
                 i < j /\ siteKeys[i] = siteKeys[j] /\ FirstIn(sites, siteKeys[i]) > 0
           /\ \E i, j \in 1..Len(cardKeys) :
                 i < j /\ cardKeys[i] = cardKeys[j] /\ FirstIn(numbers, cardKeys[i]) > 0

-----------------------------------------------------------------------------
\* The labels of the rules after the JCB rule
LaterLabels == {"Diners Club", "Maestro/Other", "Unknown"}

\* C25: detect_card_type never returns JCB: the condition of the JCB rule,
\* 3528 <= three <= 3589 with three the integer of the first three digits,
\* is false for every digit string, and a number of 16 to 19 digits whose
\* leading digits are 3528 to 3589 gets the label of a later rule or
\* Unknown.
C25_NeverJCB ==
    \A c \in Chats :
        Classified
        => /\ out[1].what # "JCB"
           /\ ~(3528 <= Leading(TextOf(c), 3) /\ Leading(TextOf(c), 3) <= 3589)
           /\ (Len(TextOf(c)) \in 16..19 /\ First(TextOf(c), 4) \in 3528..3589
               => out[1].what \in LaterLabels)

\* C25 witness: a 16-digit string that begins 3528 has been classified and
\* is labelled Unknown
C25_Witness ==
    /\ Classified
    /\ Len(TextOf(1)) = 16 /\ First(TextOf(1), 4) = 3528
    /\ out[1].what = "Unknown"

-----------------------------------------------------------------------------
SitesReduced == out # <<>> /\ out[1].kind = "sites"

\* The URLs of the list in which urlparse finds a hostname
WithHost(urls) ==
    { i \in 1..Len(urls) : Hostname(normalize_input_url(urls[i])) # <<>> }

-----------------------------------------------------------------------------
\* A step of the merge workflow: /merge, a document taken into the merge
\* bucket, /merge_cancel, /done and every later step of its run
MergeWorkflowStep(c) ==
    \/ merge_cmd(c)
    \/ merge_cancel_cmd(c)
    \/ \E d \in Docs :
          handle_document_reply(c, d) = "File added to merge" /\ handle_document(c, d)
    \/ done_cmd(c)
    \/ \E ok \in BOOLEAN : done_fetch(c, ok)
    \/ done_send(c)
    \/ done_end(c)

\* A step of the pending workflow: /clear_pending, /clean and every later
\* step of its run
PendingWorkflowStep(c) ==
    \/ clear_pending_cmd(c)
    \/ clean_cmd(c)
    \/ \E ok \in BOOLEAN : clean_fetch(c, ok)
    \/ clean_send(c)
    \/ clean_end(c)

\* C24: the steps of the merge workflow leave the pending bucket as it is,
\* the steps of the pending workflow leave the merge session and its bucket
\* as they are (also while a merge session is active), and /merge during a
\* merge session leaves the merge bucket as it is.
C24_WorkflowsKeepApart ==
    [][\A c \in Chats :
          /\ MergeWorkflowStep(c)
             => PendingTexts(c)' = PendingTexts(c) /\ PendingFiles(c)' = PendingFiles(c)
          /\ PendingWorkflowStep(c) => Entry(merge, c)' = Entry(merge, c)
          /\ (is_merging(c) /\ merge_cmd(c)) => Entry(merge, c)' = Entry(merge, c)]_vars

\* C24 witness: a /clean run is replying while a merge session with a file
\* in its bucket is active and the pending bucket still holds a text
C24_Witness ==
    /\ is_merging(1)
    /\ get_merge_files(1) # <<>>
    /\ cleanRun[1].pc = "send"
    /\ PendingTexts(1) # <<>>

-----------------------------------------------------------------------------
\* The decoded contents of the files at the indices of S, in list order
ContentsAt(files, S) ==
    LET idxs == SelectSeq([i \in 1..Len(files) |-> i], LAMBDA i : i \in S)
    IN  [k \in 1..Len(idxs) |-> ContentOf(files[idxs[k]].file_id)]

\* The step of a /clean run that forms its blob
BlobFormed(c) == cleanRun[c].pc # "send" /\ cleanRun'[c].pc = "send"

\* The lists the run reads when it forms its blob
BlobFiles(c) == IF cleanRun[c].pc = "fetch" THEN CleanFiles(c) ELSE PendingFiles(c)
BlobTextsRead(c) == IF cleanRun[c].pc = "fetch" THEN CleanTexts(c) ELSE PendingTexts(c)

\* C21: the blob of a /clean run is the contents of the pending files that
\* were fetched, in the order of the file list, followed by the pending
\* texts in the order of the text list. Each fetch that returns bytes adds
\* the content of its file after the contents before it, a fetch that fails
\* adds nothing, and the files are fetched one after the other in list
\* order, so the order of the blob is the order of accumulation.
C21_BlobIsFilesThenTexts ==
    [][\A c \in Chats :
          /\ BlobFormed(c)
             => \E S \in SUBSET (1..Len(BlobFiles(c))) :
                   cleanRun'[c].parts = ContentsAt(BlobFiles(c), S) \o BlobTextsRead(c)
          /\ \A ok \in BOOLEAN :
                clean_fetch(c, ok)
                => LET r == cleanRun[c]
                       read == IF ok
                               THEN Append(r.parts,
                                           ContentOf(CleanFiles(c)[r.idx + 1].file_id))
                               ELSE r.parts
                   IN  IF r.idx + 1 < Len(CleanFiles(c))
                       THEN cleanRun'[c].parts = read /\ cleanRun'[c].idx = r.idx + 1
                       ELSE cleanRun'[c].parts = read \o CleanTexts(c)
          /\ (cleanRun[c].pc = "fetch" /\ cleanRun'[c].pc = "fetch")
             => SubSeq(CleanFiles(c)', 1, cleanRun[c].idx + 1)
                   = SubSeq(CleanFiles(c), 1, cleanRun[c].idx + 1)]_vars

\* C21 witness: a run over two files and two texts has formed its blob, the
\* fetch of the first file having failed: the content of the second file,
\* then the two texts
C21_Witness ==
    /\ cleanRun[1].pc = "send"
    /\ Len(PendingFiles(1)) = 2 /\ Len(PendingTexts(1)) = 2
    /\ PendingFiles(1)[1].file_id # PendingFiles(1)[2].file_id
    /\ PendingTexts(1)[1] # PendingTexts(1)[2]
    /\ cleanRun[1].parts = <<ContentOf(PendingFiles(1)[2].file_id)>> \o PendingTexts(1)

-----------------------------------------------------------------------------
\* The last n elements of a sequence
LastOf(s, n) == SubSeq(s, Len(s) - n + 1, Len(s))

\* The end of a run that has replied: its bucket is cleared
CleanClears(c) == cleanRun[c].pc = "send" /\ cleanRun'[c].pc = "idle"
DoneClears(c) == doneRun[c].pc = "send" /\ doneRun'[c].pc = "idle"

\* C23: no acknowledged input is removed by the clearing at the end of a run
\* that did not read it: the texts in the pending bucket that the end of a
\* /clean run clears are the texts at the end of the run's blob, and the
\* files in the merge bucket that the end of a /done run clears are files
\* the run fetched.
C23_NoAcknowledgedInputIsLost ==
    [][\A c \in Chats :
          /\ CleanClears(c)
             => /\ Len(PendingTexts(c)) <= Len(cleanRun[c].parts)
                /\ LastOf(cleanRun[c].parts, Len(PendingTexts(c))) = PendingTexts(c)
          /\ DoneClears(c)
             => Len(get_merge_files(c)) <= doneRun[c].idx + 1]_vars

====
